---- MODULE Spec2Model ----
(***************************************************************************)
(* Emotion-to-risk scoring engine of the Mental-Health-Detection app.      *)
(*                                                                         *)
(* The scorers of modules/text_emotion.py, modules/text_analysis.py,       *)
(* modules/realtime_emotion.py, modules/voice_analysis.py and              *)
(* modules/facial_analysis.py are pure functions over an emotion vector    *)
(* or a count mapping.  They are modelled as operators over exact rational *)
(* numbers (Python floats are abstracted to the rationals they            *)
(* approximate; round(x, k) is round-half-to-even on the exact value).     *)
(* One action per analysis entry point applies the scorers to an input     *)
(* drawn from a bounded set and records what the page shows.               *)
(***************************************************************************)
EXTENDS Integers, Sequences, FiniteSets, TLC

\* pc: "idle" before an analysis, "shown" while its results are displayed
\* module: the analysis that ran; vec: its input
\* out_*: the scores and tiers the analysis computed (NoScore, "": none),
\* the dominant emotion it found ("": none) and the titles of the insights
\* it generated, in the order of the returned list
\* in_keywords: the keywords analyze_text found in its text
\* out_recommendation: the title of the recommendation it showed ("": none)
\* out_saved: the records the analysis inserted into analysis_history
VARIABLES pc, module, vec, out_wellness, out_risk, out_wellness_level,
          out_risk_level, out_dominant, out_insights,
          in_keywords, out_recommendation, out_saved

analysis_vars == <<pc, module, vec, out_wellness, out_risk,
                   out_wellness_level, out_risk_level, out_dominant,
                   out_insights, in_keywords, out_recommendation, out_saved>>

\* The session pages (text_emotion_page, realtime_emotion_page):
\* session_page: the page the browser session is on ("none": no session)
\* handler: the handler that ran last; dropped: the samples it discarded
\* st_*: the keys of st.session_state the page keeps
\* text_results: the classifier result of the last analysed text ({}: None)
\* text_analytics: what display_session_analytics did in the last script run
\* frame_count: the local of the webcam loop
\* logged_prediction: the prediction behind the last entry of emotion_log
\* rt_view: what the realtime page shows ("controls", "live": inside the
\*   loop, "ended": the loop broke off, "results"; "hidden": the app shows
\*   another page); rt_analysis: the results
\* db_saved: the records of analysis_history that save_analysis inserted
\*   for the current emotion_log, oldest first
\* log_owners: the user ids under which the samples of emotion_log were
\*   recorded
VARIABLES session_page, handler, dropped,
          st_text_session_data, text_results, text_analytics,
          st_camera_running, st_emotion_log, st_emotion_counts,
          frame_count, logged_prediction, rt_view, rt_analysis,
          db_saved, log_owners

text_vars == <<st_text_session_data, text_results, text_analytics>>

realtime_vars == <<st_camera_running, st_emotion_log, st_emotion_counts,
                   frame_count, logged_prediction, rt_view, rt_analysis,
                   db_saved, log_owners>>

session_vars == <<session_page, handler, dropped, text_vars, realtime_vars>>

\* Two executions that record samples into the same session:
\* exec_pc: the position of each execution in the recording step ("idle",
\*   "append", "read", "write"); exec_emotion: the label it is recording;
\* exec_read: the count it read from emotion_counts[label]
VARIABLES exec_pc, exec_emotion, exec_read

exec_vars == <<exec_pc, exec_emotion, exec_read>>

\* The account of the browser session (app.py, modules/auth.py):
\* db_handler: st.session_state.db_handler ("mongo", or "none" for None)
\* db_sessions: the documents of the sessions collection
\* st_authenticated, st_user_id, st_username, st_email, st_session_token:
\*   the keys of st.session_state that auth.py keeps (NoValue: None or
\*   not set)
\* query_token: st.query_params["session_token"] (NoValue: not set)
\* login_form: the username and password of the last submitted login form
\* issued: the session tokens create_session has returned so far
\* revoked: the tokens that were the active one at a logout
VARIABLES db_handler, db_sessions, st_authenticated, st_user_id,
          st_username, st_email, st_session_token, query_token,
          login_form, issued, revoked

auth_state_vars == <<st_authenticated, st_user_id, st_username, st_email,
                     st_session_token>>

account_vars == <<db_handler, db_sessions, auth_state_vars, query_token,
                  login_form, issued, revoked>>

vars == <<analysis_vars, session_vars, account_vars, exec_vars>>

(***************************************************************************)
(* Bounds of the model.                                                    *)
(***************************************************************************)
\* largest count of one label in a count mapping
MaxCount == 2
\* classifier probabilities are multiples of 1/ProbDen
ProbDen == 2
\* scores handed directly to the tier lookups are 0 .. MaxLookup hundredths
MaxLookup == 1000
\* TextBlob polarities are multiples of 1/PolDen in [-1, 1]
PolDen == 4
\* a text_emotion session holds at most MaxTexts analysed texts
MaxTexts == 2
\* a batch or an uploaded file holds at most MaxBatch texts
MaxBatch == 2
\* a realtime session logs at most MaxLog samples
MaxLog == 2
\* one run of the webcam loop reads at most MaxFrames frames after the first
MaxFrames == 10
\* at most MaxTied labels share the maximal score of one classifier result
MaxTied == 2
\* at most MaxSaves records are inserted for one emotion_log
MaxSaves == 2
\* create_session returns at most MaxTokens tokens
MaxTokens == 2

(***************************************************************************)
(* Exact rational arithmetic standing for Python float arithmetic.         *)
(***************************************************************************)
Abs(i) == IF i < 0 THEN -i ELSE i

RECURSIVE GCD(_, _)
GCD(a, b) == IF b = 0 THEN a ELSE GCD(b, a % b)

\* what an expression evaluates to when Python raises ZeroDivisionError
Raised == [n |-> 1, d |-> 0]

\* the rational n/d in lowest terms with a positive denominator;
\* a zero denominator is a division by zero (or an operand that raised)
Rat(n, d) ==
    IF d = 0 THEN Raised
    ELSE LET g == GCD(Abs(n), Abs(d))
             s == IF d < 0 THEN -1 ELSE 1
         IN  [n |-> (s * n) \div g, d |-> (s * d) \div g]

FromInt(i) == [n |-> i, d |-> 1]

RAdd(a, b) == Rat(a.n * b.d + b.n * a.d, a.d * b.d)
RMul(a, b) == Rat(a.n * b.n, a.d * b.d)
RDiv(a, b) == Rat(a.n * b.d, a.d * b.n)
RNeg(a) == Rat(-a.n, a.d)
RLt(a, b) == a.n * b.d < b.n * a.d
RLe(a, b) == a.n * b.d <= b.n * a.d
RGt(a, b) == RLt(b, a)
RGe(a, b) == RLe(b, a)
RMin(a, b) == IF RLt(b, a) THEN b ELSE a
RMax(a, b) == IF RLt(a, b) THEN b ELSE a

\* Python round(x, k) with p = 10^k: nearest multiple of 1/p, ties to even
PyRound(x, p) ==
    IF x.d = 0 THEN Raised
    ELSE LET num == Abs(x.n) * p
             q == num \div x.d
             r == num % x.d
             m == IF 2 * r < x.d THEN q
                  ELSE IF 2 * r > x.d THEN q + 1
                  ELSE IF q % 2 = 0 THEN q ELSE q + 1
         IN  Rat(IF x.n < 0 THEN -m ELSE m, p)

\* the marker of a score that an analysis does not produce
NoScore == [n |-> 0, d |-> 0]

(***************************************************************************)
(* Python dict and list helpers.                                           *)
(***************************************************************************)
\* d.get(k, default)
Get(d, k, default) == IF k \in DOMAIN d THEN d[k] ELSE default

\* sum(d.get(e, 0) for e in keys), keys a list
RECURSIVE SumGet(_, _)
SumGet(d, keys) ==
    IF keys = <<>> THEN FromInt(0)
    ELSE RAdd(Get(d, Head(keys), FromInt(0)), SumGet(d, Tail(keys)))

\* sum(d.values())
RECURSIVE SumValues(_, _)
SumValues(d, ks) ==
    IF ks = {} THEN FromInt(0)
    ELSE LET k == CHOOSE x \in ks : TRUE
         IN  RAdd(d[k], SumValues(d, ks \ {k}))

\* the members of a list
Range(s) == {s[i] : i \in DOMAIN s}

\* variant: of the keys with the maximal value, the last one in the order
LastMax(keys, d) ==
    LET present == SelectSeq(keys, LAMBDA k : k \in DOMAIN d)
        i == CHOOSE i \in DOMAIN present :
                 /\ \A j \in DOMAIN present : RLe(d[present[j]], d[present[i]])
                 /\ \A j \in DOMAIN present :
                        j > i => RLt(d[present[j]], d[present[i]])
    IN  present[i]

\* max(d, key=d.get), sorted(..., reverse=True)[0] and np.argmax: of the
\* keys with the maximal value, the first one in the iteration order keys
FirstMax(keys, d) ==
    LET present == SelectSeq(keys, LAMBDA k : k \in DOMAIN d)
        i == CHOOSE i \in DOMAIN present :
                 /\ \A j \in DOMAIN present : RLe(d[present[j]], d[present[i]])
                 /\ \A j \in DOMAIN present :
                        j < i => RLt(d[present[j]], d[present[i]])
    IN  present[i]

(***************************************************************************)
(* modules/text_emotion.py                                                 *)
(***************************************************************************)
\* the keys display_session_analytics counts over
TextLabels == <<"joy", "sadness", "anger", "fear", "surprise", "disgust", "neutral">>

te_positive_emotions == <<"joy", "surprise">>
te_negative_emotions == <<"anger", "sadness", "fear", "disgust">>

\* variant: neutral counted in full, as a positive emotion
text_emotion_calculate_wellness_score_neutral_full(emotion_data) ==
    LET positive_score == SumGet(emotion_data, te_positive_emotions)
        negative_score == SumGet(emotion_data, te_negative_emotions)
        neutral_score == Get(emotion_data, "neutral", FromInt(0))
        total == RAdd(RAdd(positive_score, negative_score), neutral_score)
    IN  IF total = FromInt(0) THEN FromInt(5)
        ELSE PyRound(RMul(RDiv(RAdd(positive_score, neutral_score), total),
                          FromInt(10)), 100)

\* variant: the "total == 0" guard left out
text_emotion_calculate_wellness_score_unguarded(emotion_data) ==
    LET positive_score == SumGet(emotion_data, te_positive_emotions)
        negative_score == SumGet(emotion_data, te_negative_emotions)
        neutral_score == Get(emotion_data, "neutral", FromInt(0))
        total == RAdd(RAdd(positive_score, negative_score), neutral_score)
    IN  PyRound(RMul(RDiv(RAdd(positive_score,
                               RMul(Rat(1, 2), neutral_score)),
                          total),
                     FromInt(10)), 100)

text_emotion_calculate_wellness_score(emotion_data) ==
    LET positive_score == SumGet(emotion_data, te_positive_emotions)
        negative_score == SumGet(emotion_data, te_negative_emotions)
        neutral_score == Get(emotion_data, "neutral", FromInt(0))
        total == RAdd(RAdd(positive_score, negative_score), neutral_score)
    IN  IF total = FromInt(0) THEN FromInt(5)
        ELSE PyRound(RMul(RDiv(RAdd(positive_score,
                                    RMul(Rat(1, 2), neutral_score)),
                               total),
                          FromInt(10)), 100)

te_weights ==
    [sadness |-> Rat(45, 100), fear |-> Rat(30, 100),
     anger |-> Rat(20, 100), disgust |-> Rat(15, 100)]

\* the loop over weights.items(), remaining keys ks
RECURSIVE te_risk_loop(_, _, _)
te_risk_loop(emotion_data, total_entries, ks) ==
    IF ks = {} THEN FromInt(0)
    ELSE LET emotion == CHOOSE k \in ks : TRUE
             rest == te_risk_loop(emotion_data, total_entries, ks \ {emotion})
         IN  IF emotion \in DOMAIN emotion_data
             THEN LET proportion == RDiv(emotion_data[emotion], total_entries)
                  IN  RAdd(rest, RMul(RMul(proportion, te_weights[emotion]),
                                      FromInt(10)))
             ELSE rest

\* variant: proportions taken over the seven labels instead of all values
text_emotion_calculate_risk_score_seven_labels(emotion_data) ==
    LET total_entries == SumGet(emotion_data, TextLabels)
    IN  IF total_entries = FromInt(0) THEN FromInt(0)
        ELSE PyRound(te_risk_loop(emotion_data, total_entries,
                                  DOMAIN te_weights), 100)

text_emotion_calculate_risk_score(emotion_data) ==
    LET total_entries == SumValues(emotion_data, DOMAIN emotion_data)
    IN  IF total_entries = FromInt(0) THEN FromInt(0)
        ELSE PyRound(te_risk_loop(emotion_data, total_entries,
                                  DOMAIN te_weights), 100)

\* variant: the Critical bound open (risk_score > 7.0)
get_risk_level_open(risk_score) ==
    IF RGt(risk_score, FromInt(7)) THEN "Critical Risk"
    ELSE IF RGe(risk_score, FromInt(5)) THEN "High Risk"
    ELSE IF RGe(risk_score, FromInt(3)) THEN "Moderate Risk"
    ELSE IF RGe(risk_score, FromInt(1)) THEN "Low Risk"
    ELSE "Minimal Risk"

get_risk_level(risk_score) ==
    IF RGe(risk_score, FromInt(7)) THEN "Critical Risk"
    ELSE IF RGe(risk_score, FromInt(5)) THEN "High Risk"
    ELSE IF RGe(risk_score, FromInt(3)) THEN "Moderate Risk"
    ELSE IF RGe(risk_score, FromInt(1)) THEN "Low Risk"
    ELSE "Minimal Risk"

get_wellness_level(wellness_score) ==
    IF RGe(wellness_score, FromInt(8)) THEN "Excellent"
    ELSE IF RGe(wellness_score, FromInt(6)) THEN "Good"
    ELSE IF RGe(wellness_score, FromInt(4)) THEN "Fair"
    ELSE IF RGe(wellness_score, FromInt(2)) THEN "Poor"
    ELSE "Critical"

(***************************************************************************)
(* modules/text_analysis.py, analyze_text                                  *)
(***************************************************************************)
\* emotion_classifier(text)[0]: one entry per label of the loaded model
\* (j-hartmann/emotion-english-distilroberta-base), in the order of the
\* model's label ids; "other" stands for a label outside the seven, which
\* the code accepts unchecked
ClassifierLabels ==
    <<"anger", "disgust", "fear", "joy", "neutral", "sadness", "surprise",
      "other">>

\* emotion_results[0]['label'] after the stable sort by descending score
analyze_text_dominant_emotion(emotion_results) ==
    FirstMax(ClassifierLabels, emotion_results)

ta_negative_weights ==
    [sadness |-> Rat(45, 100), fear |-> Rat(30, 100),
     anger |-> Rat(20, 100), disgust |-> Rat(15, 100)]

\* the loop "for emotion in emotion_results", remaining labels ls;
\* emotion_results is held as the mapping label -> score
RECURSIVE ta_risk_loop(_, _)
ta_risk_loop(emotion_results, ls) ==
    IF ls = {} THEN FromInt(0)
    ELSE LET label == CHOOSE l \in ls : TRUE
             rest == ta_risk_loop(emotion_results, ls \ {label})
         IN  IF label \in DOMAIN ta_negative_weights
             THEN RAdd(rest, RMul(RMul(emotion_results[label],
                                       ta_negative_weights[label]),
                                  FromInt(100)))
             ELSE rest

analyze_text_risk_score(emotion_results) ==
    RMin(FromInt(100), ta_risk_loop(emotion_results, DOMAIN emotion_results))

\* sum(e['score'] for e in emotion_results if e['label'] in labels)
RECURSIVE ta_sum_if(_, _, _)
ta_sum_if(emotion_results, ls, labels) ==
    IF ls = {} THEN FromInt(0)
    ELSE LET label == CHOOSE l \in ls : TRUE
             rest == ta_sum_if(emotion_results, ls \ {label}, labels)
         IN  IF label \in labels THEN RAdd(rest, emotion_results[label])
             ELSE rest

analyze_text_wellness_score(emotion_results) ==
    LET all == DOMAIN emotion_results
        positive_score == ta_sum_if(emotion_results, all, {"joy", "surprise"})
        negative_score ==
            ta_sum_if(emotion_results, all, {"sadness", "fear", "anger", "disgust"})
        neutral_score == ta_sum_if(emotion_results, all, {"neutral"})
        total_score == RAdd(RAdd(positive_score, negative_score), neutral_score)
    IN  IF RGt(total_score, FromInt(0))
        THEN RMul(RDiv(RAdd(positive_score, RMul(Rat(1, 2), neutral_score)),
                       total_score),
                  FromInt(100))
        ELSE FromInt(50)

\* the TextBlob fallback taken when no classifier result is available
analyze_text_fallback_risk_score(sentiment_polarity) ==
    RMax(FromInt(0), RMul(RNeg(sentiment_polarity), FromInt(100)))

analyze_text_fallback_wellness_score(sentiment_polarity) ==
    RMax(FromInt(0), RMul(sentiment_polarity, FromInt(100)))

analyze_text_risk_level(risk_score) ==
    IF RLt(risk_score, FromInt(30)) THEN "Low"
    ELSE IF RLt(risk_score, FromInt(50)) THEN "Moderate"
    ELSE IF RLt(risk_score, FromInt(70)) THEN "High"
    ELSE "Critical"

(***************************************************************************)
(* modules/realtime_emotion.py                                             *)
(***************************************************************************)
\* emotion_dict.values(): the keys of st.session_state.emotion_counts
RealtimeLabels ==
    <<"Angry", "Disgusted", "Fearful", "Happy", "Neutral", "Sad", "Surprised">>

rt_positive_emotions == <<"Happy", "Neutral", "Surprised">>
rt_negative_emotions == <<"Sad", "Angry", "Fearful", "Disgusted">>

realtime_calculate_wellness_score(emotion_counts, total_frames) ==
    IF total_frames = FromInt(0) THEN FromInt(5)
    ELSE LET positive_score == SumGet(emotion_counts, rt_positive_emotions)
             negative_score == SumGet(emotion_counts, rt_negative_emotions)
             wellness ==
                 IF RGt(RAdd(positive_score, negative_score), FromInt(0))
                 THEN RMul(RDiv(positive_score,
                                RAdd(positive_score, negative_score)),
                           FromInt(10))
                 ELSE FromInt(5)
         IN  PyRound(wellness, 10)

rt_risk_weights ==
    [Sad |-> Rat(45, 100), Fearful |-> Rat(40, 100),
     Angry |-> Rat(30, 100), Disgusted |-> Rat(20, 100)]

\* (emotion_counts.get(emotion, 0) / total_frames) * 100
rt_emotion_percentage(emotion_counts, total_frames, emotion) ==
    RMul(RDiv(Get(emotion_counts, emotion, FromInt(0)), total_frames),
         FromInt(100))

\* variant: the presence threshold closed (emotion_percentage >= 20)
RECURSIVE rt_risk_loop_at_least(_, _, _)
rt_risk_loop_at_least(emotion_counts, total_frames, ks) ==
    IF ks = {} THEN FromInt(0)
    ELSE LET emotion == CHOOSE k \in ks : TRUE
             rest == rt_risk_loop_at_least(emotion_counts, total_frames,
                                           ks \ {emotion})
             emotion_percentage ==
                 rt_emotion_percentage(emotion_counts, total_frames, emotion)
         IN  IF RGe(emotion_percentage, FromInt(20))
             THEN RAdd(rest, RMul(RDiv(emotion_percentage, FromInt(100)),
                                  rt_risk_weights[emotion]))
             ELSE rest

\* the loop over risk_weights.items(), remaining keys ks
RECURSIVE rt_risk_loop(_, _, _)
rt_risk_loop(emotion_counts, total_frames, ks) ==
    IF ks = {} THEN FromInt(0)
    ELSE LET emotion == CHOOSE k \in ks : TRUE
             rest == rt_risk_loop(emotion_counts, total_frames, ks \ {emotion})
             emotion_percentage ==
                 rt_emotion_percentage(emotion_counts, total_frames, emotion)
         IN  IF RGt(emotion_percentage, FromInt(20))
             THEN RAdd(rest, RMul(RDiv(emotion_percentage, FromInt(100)),
                                  rt_risk_weights[emotion]))
             ELSE rest

\* sum(1 for e in ['Sad', 'Fearful', 'Angry', 'Disgusted'] if percentage > 20)
rt_negative_count(emotion_counts, total_frames) ==
    Cardinality({e \in {"Sad", "Fearful", "Angry", "Disgusted"} :
        RGt(rt_emotion_percentage(emotion_counts, total_frames, e),
            FromInt(20))})

\* variant: the bonus added once per label over the threshold
rt_bonus_per_label(risk, negative_count) ==
    IF negative_count >= 2
    THEN RAdd(risk, RMul(Rat(1, 2), FromInt(negative_count)))
    ELSE risk

\* the escalation step: risk += 0.5 when negative_count >= 2
rt_bonus(risk, negative_count) ==
    IF negative_count >= 2 THEN RAdd(risk, Rat(1, 2)) ELSE risk

realtime_calculate_risk_score(emotion_counts, total_frames) ==
    IF total_frames = FromInt(0) THEN FromInt(0)
    ELSE LET risk == rt_bonus(rt_risk_loop(emotion_counts, total_frames,
                                           DOMAIN rt_risk_weights),
                              rt_negative_count(emotion_counts, total_frames))
         IN  PyRound(RMin(FromInt(10), RMul(risk, FromInt(10))), 10)

\* display_analysis_results: the tier shown next to the risk score
realtime_risk_level(risk_score) ==
    IF RLt(risk_score, FromInt(4)) THEN "Low"
    ELSE IF RLt(risk_score, FromInt(7)) THEN "Moderate"
    ELSE "High"

(***************************************************************************)
(* modules/voice_analysis.py                                               *)
(***************************************************************************)
\* str.capitalize() on the label strings the module uses
Capitalize(s) ==
    CASE s = "happy" -> "Happy"
      [] s = "calm" -> "Calm"
      [] s = "neutral" -> "Neutral"
      [] s = "surprise" -> "Surprise"
      [] s = "sad" -> "Sad"
      [] s = "angry" -> "Angry"
      [] s = "fear" -> "Fear"
      [] s = "disgust" -> "Disgust"

\* predict_emotion: the classes the scores are keyed by (capitalized)
voice_emotion_classes ==
    <<"angry", "disgust", "fear", "happy", "neutral", "sad", "surprise">>

VoiceLabels == [i \in DOMAIN voice_emotion_classes |->
                   Capitalize(voice_emotion_classes[i])]

va_positive_emotions == <<"happy", "calm", "neutral", "surprise">>
va_negative_emotions == <<"sad", "angry", "fear", "disgust">>

\* sum(emotion_scores.get(e.capitalize(), 0) for e in keys)
RECURSIVE va_sum_get(_, _)
va_sum_get(emotion_scores, keys) ==
    IF keys = <<>> THEN FromInt(0)
    ELSE RAdd(Get(emotion_scores, Capitalize(Head(keys)), FromInt(0)),
              va_sum_get(emotion_scores, Tail(keys)))

voice_calculate_wellness_score(emotion_scores) ==
    LET positive_score == va_sum_get(emotion_scores, va_positive_emotions)
        negative_score == va_sum_get(emotion_scores, va_negative_emotions)
        wellness ==
            IF RGt(RAdd(positive_score, negative_score), FromInt(0))
            THEN RMul(RDiv(positive_score,
                           RAdd(positive_score, negative_score)),
                      FromInt(100))
            ELSE FromInt(50)
    IN  PyRound(wellness, 10)

va_risk_emotions ==
    [sad |-> Rat(15, 10), fear |-> Rat(13, 10),
     disgust |-> Rat(11, 10), angry |-> Rat(12, 10)]

\* the loop over risk_emotions.items(), remaining keys ks
RECURSIVE va_risk_loop(_, _)
va_risk_loop(emotion_scores, ks) ==
    IF ks = {} THEN FromInt(0)
    ELSE LET emotion == CHOOSE k \in ks : TRUE
         IN  RAdd(va_risk_loop(emotion_scores, ks \ {emotion}),
                  RMul(Get(emotion_scores, Capitalize(emotion), FromInt(0)),
                       va_risk_emotions[emotion]))

\* variant: the upper clamp left out
voice_calculate_risk_score_unclamped(emotion_scores) ==
    LET risk == va_risk_loop(emotion_scores, DOMAIN va_risk_emotions)
    IN  PyRound(RMax(FromInt(0), risk), 10)

voice_calculate_risk_score(emotion_scores) ==
    LET risk == va_risk_loop(emotion_scores, DOMAIN va_risk_emotions)
    IN  PyRound(RMin(FromInt(100), RMax(FromInt(0), risk)), 10)

\* analyze_audio: the tier shown next to the risk score
\* what generate_voice_insights returns when max() raises ValueError on an
\* empty dict
NoInsights == <<"ValueError">>

\* the keys of the emotions dict handed to generate_voice_insights, in
\* insertion order
VoiceInsightLabels == <<"Happy", "Sad", "Neutral">>

\* the titles of the insights, in the order they are appended; energy is
\* not read
generate_voice_insights(emotions, tempo, risk_score) ==
    IF DOMAIN emotions = {} THEN NoInsights
    ELSE (IF RGt(Get(emotions, "Sad", FromInt(0)), FromInt(60))
          THEN <<"Sadness Detected in Voice">> ELSE << >>)
         \o (IF tempo < 90 THEN <<"Slower Speech Rate">>
             ELSE IF tempo > 140 THEN <<"Rapid Speech Detected">>
             ELSE << >>)
         \o (IF RGt(risk_score, FromInt(70))
             THEN <<"Elevated Concern Level">> ELSE << >>)
         \o (IF RGt(Get(emotions, "Happy", FromInt(0)), FromInt(60))
             THEN <<"Positive Vocal Indicators">> ELSE << >>)

voice_risk_level(risk_score) ==
    IF RLt(risk_score, FromInt(40)) THEN "Low"
    ELSE IF RLt(risk_score, FromInt(70)) THEN "Moderate"
    ELSE "High"

(***************************************************************************)
(* modules/facial_analysis.py                                              *)
(***************************************************************************)
\* the keys of the emotions mapping built by simulate_face_detection
FacialLabels ==
    <<"Happy", "Sad", "Angry", "Surprised", "Fearful", "Disgusted", "Neutral">>

\* one "if emotions.get(key, 0) > limit: score += delta" step
facial_adjust(emotions, key, limit, delta) ==
    IF RGt(Get(emotions, key, FromInt(0)), FromInt(limit)) THEN delta ELSE 0

calculate_facial_risk_score(emotions) ==
    LET score == 50
                 + facial_adjust(emotions, "Sad", 50, 25)
                 + facial_adjust(emotions, "Fearful", 40, 20)
                 + facial_adjust(emotions, "Angry", 50, 15)
                 + facial_adjust(emotions, "Happy", 60, -25)
                 + facial_adjust(emotions, "Neutral", 70, -10)
    IN  RMin(FromInt(100), RMax(FromInt(0), FromInt(score)))

\* analyze_face: the tier shown next to the risk score
facial_risk_level(risk_score) ==
    IF RLt(risk_score, FromInt(40)) THEN "Low"
    ELSE IF RLt(risk_score, FromInt(70)) THEN "Moderate"
    ELSE "High"

\* dominant_emotion = max(emotions, key=emotions.get): the first key of the
\* dict, in insertion order, that holds the highest value
analyze_face_dominant_emotion(emotions) == FirstMax(FacialLabels, emotions)

\* the titles of the insights, in the order they are appended
generate_facial_insights(emotions, risk_score, dominant_emotion) ==
    (IF dominant_emotion = "Happy" THEN <<"Positive Emotional State">>
     ELSE IF dominant_emotion = "Sad" THEN <<"Signs of Sadness">>
     ELSE IF dominant_emotion = "Angry"
          THEN <<"Anger or Frustration Detected">>
     ELSE << >>)
    \o (IF RGt(Get(emotions, "Fearful", FromInt(0)), FromInt(40))
        THEN <<"Anxiety Indicators">> ELSE << >>)
    \o (IF RGt(risk_score, FromInt(70))
        THEN <<"Elevated Concern Level">> ELSE << >>)

(***************************************************************************)
(* Inputs of the analyses.                                                 *)
(***************************************************************************)
\* {}: a dict with no key
EmptyMap == [k \in {} |-> FromInt(0)]

\* the count mapping with the counts c
AsCounts(c) == [k \in DOMAIN c |-> FromInt(c[k])]

\* the classifier output with score c[k] * scale / ProbDen on label k
AsScores(c, scale) == [k \in DOMAIN c |-> Rat(c[k] * scale, ProbDen)]

\* dicts handed to the text_emotion scorers: counts in 0 .. MaxCount;
\* "other" is a key outside the seven labels
TextEmotionInputs == [Range(TextLabels) \cup {"other"} -> 0 .. MaxCount]

\* dicts with values outside the numeric domain: -1, 0 or 1 on two of the
\* seven labels and on a key outside them
TextEmotionSignedInputs == [{"joy", "sadness", "other"} -> -1 .. 1]

\* emotion_classifier(text)[0]: one score in [0, 1] per label, held as
\* multiples of 1 / ProbDen
TextAnalysisInputs == [Range(TextLabels) -> 0 .. ProbDen]

\* st.session_state.emotion_counts: counts in 0 .. MaxCount
RealtimeInputs == [Range(RealtimeLabels) -> 0 .. MaxCount]

\* predict_emotion: one percentage per class, multiples of 100 / ProbDen
VoiceInputs == [Range(VoiceLabels) -> 0 .. ProbDen]

\* arguments of generate_voice_insights: percentages on three classes,
\* tempos on both sides of the two speech-rate limits, risk scores on both
\* sides of the concern limit
VoiceInsightInputs == [Range(VoiceInsightLabels) -> 0 .. ProbDen]
VoiceInsightTempos == {89, 90, 140, 141}
VoiceInsightRisks == {0, 70, 71, 100}

\* simulate_face_detection: one percentage per label
FacialInputs == [Range(FacialLabels) -> 0 .. ProbDen]

\* a classifier result at the resolution of whole percents: 60% sadness,
\* 20% fear, 10% anger, 5% joy and 5% neutral
ScenarioB ==
    [joy |-> 5, sadness |-> 60, anger |-> 10, fear |-> 20, surprise |-> 0,
     disgust |-> 0, neutral |-> 5]

\* the classifier output with score c[k] / 100 on label k
AsPercentScores(c) == [k \in DOMAIN c |-> Rat(c[k], 100)]

(***************************************************************************)
(* modules/text_emotion.py, the session kept by text_emotion_page          *)
(***************************************************************************)
\* the emotion_counts display_session_analytics starts from
te_emotion_counts == [k \in Range(TextLabels) |-> 0]

\* variant: every entry counted twice
RECURSIVE te_count_loop_twice(_, _)
te_count_loop_twice(session_data, emotion_counts) ==
    IF session_data = << >> THEN emotion_counts
    ELSE LET dominant_emotion == Head(session_data)
         IN  te_count_loop_twice(
                 Tail(session_data),
                 [emotion_counts EXCEPT ![dominant_emotion] = @ + 2])

\* "for entry in session_data: emotion_counts[dominant_emotion] += 1"
RECURSIVE te_count_loop(_, _)
te_count_loop(session_data, emotion_counts) ==
    IF session_data = << >> THEN emotion_counts
    ELSE LET dominant_emotion == Head(session_data)
         IN  te_count_loop(
                 Tail(session_data),
                 [emotion_counts EXCEPT ![dominant_emotion] = @ + 1])

\* what display_session_analytics shows when it has not run
NoAnalytics ==
    [status |-> "none", texts_analyzed |-> 0,
     emotion_counts |-> te_emotion_counts,
     wellness_score |-> NoScore, risk_score |-> NoScore,
     wellness_level |-> "", risk_level |-> "", dominant_overall |-> ""]

\* display_session_analytics: "empty" when it returns at once, "KeyError"
\* when emotion_counts[dominant_emotion] raises on a label that is no key
display_session_analytics(session_data) ==
    IF Len(session_data) = 0 THEN [NoAnalytics EXCEPT !.status = "empty"]
    ELSE IF \E i \in DOMAIN session_data :
                session_data[i] \notin DOMAIN te_emotion_counts
    THEN [NoAnalytics EXCEPT !.status = "KeyError"]
    ELSE LET emotion_counts == te_count_loop(session_data, te_emotion_counts)
             wellness_score ==
                 text_emotion_calculate_wellness_score(AsCounts(emotion_counts))
             risk_score ==
                 text_emotion_calculate_risk_score(AsCounts(emotion_counts))
         IN  [status |-> "shown", texts_analyzed |-> Len(session_data),
              emotion_counts |-> emotion_counts,
              wellness_score |-> wellness_score, risk_score |-> risk_score,
              wellness_level |-> get_wellness_level(wellness_score),
              risk_level |-> get_risk_level(risk_score),
              dominant_overall |-> FirstMax(TextLabels, AsCounts(emotion_counts))]

\* variant: an entry is appended whether or not there is a result
append_session_entry_always(session_data, results) ==
    Append(session_data,
           IF results = EmptyMap THEN "neutral"
           ELSE FirstMax(ClassifierLabels, results))

\* "if results: ... st.session_state.text_session_data.append(session_entry)"
\* with 'dominant_emotion': results[0]['label'], results being sorted by
\* descending score; a session entry is held as its dominant_emotion
append_session_entry(session_data, results) ==
    IF results = EmptyMap THEN session_data
    ELSE Append(session_data, FirstMax(ClassifierLabels, results))

\* the loop of the batch analysis and of the file analysis over the texts
RECURSIVE append_session_entries(_, _)
append_session_entries(session_data, batch) ==
    IF batch = << >> THEN session_data
    ELSE append_session_entries(append_session_entry(session_data, Head(batch)),
                                Tail(batch))

\* variant: Reset Session keeps the texts analysed so far
reset_session_keep(session_data) == session_data

\* "st.session_state.text_session_data = []"
reset_session(session_data) == << >>

(***************************************************************************)
(* modules/realtime_emotion.py, the session kept by realtime_emotion_page  *)
(***************************************************************************)
\* "if frame_count % 10 == 0"
LogEvery == 10

\* the indices of model.predict's output
PredictionIndices == <<0, 1, 2, 3, 4, 5, 6>>

\* emotion_dict[maxindex] with maxindex = int(np.argmax(prediction))
current_emotion_of(prediction) ==
    RealtimeLabels[FirstMax(PredictionIndices, prediction) + 1]

\* {emotion: 0 for emotion in emotion_dict.values()}
rt_emotion_counts == [k \in Range(RealtimeLabels) |-> 0]

\* variant: Start Webcam keeps the counts of the session before
start_emotion_counts_keep(emotion_counts) == emotion_counts

\* the emotion_counts Start Webcam stores
start_emotion_counts(emotion_counts) == rt_emotion_counts

\* variant: the sample is logged but not counted
count_emotion_skip(emotion_counts, current_emotion) == emotion_counts

\* "st.session_state.emotion_counts[current_emotion] += 1"
count_emotion(emotion_counts, current_emotion) ==
    [emotion_counts EXCEPT ![current_emotion] = @ + 1]

\* what the page shows of display_analysis_results when it has not run
NoAnalysis ==
    [status |-> "none", total_frames |-> 0,
     wellness_score |-> NoScore, risk_score |-> NoScore,
     dominant_emotion |-> "", risk_level |-> ""]

display_analysis_results(emotion_log, emotion_counts) ==
    LET total_frames == Len(emotion_log)
    IN  IF total_frames = 0 THEN [NoAnalysis EXCEPT !.status = "empty"]
        ELSE LET wellness_score ==
                     realtime_calculate_wellness_score(AsCounts(emotion_counts),
                                                       FromInt(total_frames))
                 risk_score ==
                     realtime_calculate_risk_score(AsCounts(emotion_counts),
                                                   FromInt(total_frames))
             IN  [status |-> "shown", total_frames |-> total_frames,
                  wellness_score |-> wellness_score, risk_score |-> risk_score,
                  dominant_emotion |->
                      FirstMax(RealtimeLabels, AsCounts(emotion_counts)),
                  risk_level |-> realtime_risk_level(risk_score)]

\* str.lower() on the labels of emotion_dict
realtime_lower ==
    [Angry |-> "angry", Disgusted |-> "disgusted", Fearful |-> "fearful",
     Happy |-> "happy", Neutral |-> "neutral", Sad |-> "sad",
     Surprised |-> "surprised"]

\* analysis_data of the record display_analysis_results saves (the keys
\* 'emotions', 'sentiment', 'session_duration' and 'avg_confidence' are
\* left out)
realtime_analysis_data(analysis) ==
    [emotion |-> realtime_lower[analysis.dominant_emotion],
     wellness_score |-> analysis.wellness_score,
     risk_score |-> analysis.risk_score,
     total_frames |-> analysis.total_frames]

(***************************************************************************)
(* database/mongodb_handler.py: the users and sessions collections, and    *)
(* the analysis_history collection                                         *)
(***************************************************************************)
\* Python's None in a key that otherwise holds a string
None == "None"

\* no session token: None, or the query parameter is not set
NoToken == 0

\* hashlib.sha256(password.encode()).hexdigest(), kept symbolic
hash_password(password) == <<"sha256", password>>

\* the documents of the users collection; user_id is str(user["_id"])
db_users ==
    {[user_id |-> "id_alice", username |-> "alice",
      password |-> hash_password("pw_alice"), email |-> "alice@example.com"],
     [user_id |-> "id_bob", username |-> "bob",
      password |-> hash_password("pw_bob"), email |-> "bob@example.com"]}

\* what authenticate_user and get_session return when they return None
NoUserData == [user_id |-> None, username |-> None, email |-> None]

UserDataOf(doc) ==
    [user_id |-> doc.user_id, username |-> doc.username, email |-> doc.email]

\* find_one on username and password hash; None when nothing matches
authenticate_user(username, password) ==
    LET found == {u \in db_users : /\ u.username = username
                                   /\ u.password = hash_password(password)}
    IN  IF found = {} THEN NoUserData
        ELSE UserDataOf(CHOOSE u \in found : TRUE)

\* insert_one of a session document that expires in expiry_days
create_session(sessions, session_token, user) ==
    sessions \cup {[session_token |-> session_token,
                    user_id |-> user.user_id, username |-> user.username,
                    email |-> user.email, expired |-> FALSE]}

get_session_any(sessions, session_token) ==
    LET found == {x \in sessions : x.session_token = session_token}
    IN  IF found = {} THEN NoUserData
        ELSE UserDataOf(CHOOSE x \in found : TRUE)

\* find_one on the token and "expires_at > now"; None when nothing matches
get_session(sessions, session_token) ==
    LET found == {x \in sessions : /\ x.session_token = session_token
                                   /\ ~x.expired}
    IN  IF found = {} THEN NoUserData
        ELSE UserDataOf(CHOOSE x \in found : TRUE)

delete_session_keep(sessions, session_token) == sessions

\* delete_one on the token
delete_session(sessions, session_token) ==
    {x \in sessions : x.session_token # session_token}

\* insert_one of an analysis record; inserted is FALSE when insert_one
\* raised and save_analysis returned False
save_analysis(collection, user_id, analysis_type, analysis_data, inserted) ==
    IF inserted
    THEN Append(collection, [user_id |-> user_id,
                             analysis_type |-> analysis_type,
                             data |-> analysis_data])
    ELSE collection

\* "if db_handler and user_id"
CanSave(handler_value, user_id) ==
    handler_value # "none" /\ user_id # None

\* the methods of the class MongoDBHandler
MongoDBHandlerMethods ==
    {"hash_password", "create_user", "authenticate_user", "create_session",
     "get_session", "delete_session", "delete_user_sessions",
     "save_analysis", "get_user_analysis_history", "get_user_statistics",
     "save_dashboard_data", "get_dashboard_data", "close"}

\* the parameters of MongoDBHandler.save_analysis; none has a default
save_analysis_parameters == {"user_id", "analysis_type", "analysis_data"}

\* a call of a method of the handler binds when the method exists and the
\* arguments name exactly its parameters; otherwise Python raises
\* AttributeError or TypeError before the method runs
HandlerAccepts(method, parameters, arguments) ==
    method \in MongoDBHandlerMethods /\ arguments = parameters

\* the keyword arguments of the save_analysis call of analyze_audio
voice_save_arguments ==
    {"user_id", "analysis_type", "text_content", "emotions",
     "wellness_score", "risk_score", "dominant_emotion"}

\* the save of analyze_audio: the exception of a call that does not bind
\* is caught and printed, the collection stays as it was
voice_save(collection, user_id, wellness_score, risk_score, inserted) ==
    IF HandlerAccepts("save_analysis", save_analysis_parameters,
                      voice_save_arguments)
    THEN save_analysis(collection, user_id, "voice",
                       [wellness_score |-> wellness_score,
                        risk_score |-> risk_score], inserted)
    ELSE collection

\* the save of analyze_text: three positional arguments
text_analysis_save(collection, user_id, analysis_data, inserted) ==
    IF HandlerAccepts("save_analysis", save_analysis_parameters,
                      {"user_id", "analysis_type", "analysis_data"})
    THEN save_analysis(collection, user_id, "text_analysis", analysis_data,
                       inserted)
    ELSE collection

\* the "Save to Database" button of text_emotion_page calls
\* db.save_analysis_result(session_doc); the exception is shown by st.error
text_emotion_save(collection, session_doc, inserted) ==
    IF HandlerAccepts("save_analysis_result", {"session_doc"},
                      {"session_doc"})
    THEN IF inserted THEN Append(collection, session_doc) ELSE collection
    ELSE collection

\* found_keywords of analyze_text, as the number of keywords of each list
\* that occur in the text
NoKeywords == [critical |-> 0, high |-> 0, moderate |-> 0, positive |-> 0]

\* the "Recommended Actions" of analyze_text
analyze_text_recommendation(found_keywords, risk_level) ==
    LET critical_count == found_keywords.critical
        concern_count == found_keywords.high + found_keywords.moderate
        positive_count == found_keywords.positive
    IN  IF critical_count > 0 THEN "Immediate Support Needed"
        ELSE IF concern_count > 5 \/ risk_level \in {"High", "Moderate"}
        THEN "Self-Care Recommendations"
        ELSE IF positive_count > concern_count
        THEN "Keep Up the Positive Momentum!"
        ELSE "Maintain Your Mental Wellness"

\* emotion_label of the TextBlob fallback
analyze_text_fallback_label(sentiment_polarity) ==
    IF RGt(sentiment_polarity, Rat(1, 10)) THEN "Positive"
    ELSE IF RLt(sentiment_polarity, Rat(-1, 10)) THEN "Negative"
    ELSE "Neutral"

\* analysis_data of analyze_text
text_analysis_data(emotion_label, risk_level, risk_score, wellness_score, kw) ==
    [dominant_emotion |-> emotion_label,
     risk_level |-> risk_level,
     risk_score |-> risk_score,
     wellness_score |-> wellness_score,
     keywords_found |-> kw]

(***************************************************************************)
(* Inputs of the sessions.                                                 *)
(***************************************************************************)
\* the result in which the labels of tied share the whole score equally
TiedResult(labels, tied) ==
    [k \in labels |-> IF k \in tied THEN Rat(1, Cardinality(tied))
                      ELSE FromInt(0)]

\* results in which one label, or up to MaxTied labels alike, hold the
\* maximal score
TiedResults(labels) ==
    {TiedResult(labels, tied) :
        tied \in {t \in SUBSET labels : Cardinality(t) \in 1 .. MaxTied}}

\* classifier(text)[0] for one text
TextResults == TiedResults(Range(ClassifierLabels))

\* the numbers of keywords found in a text: none or one critical keyword,
\* none or three of the high and of the moderate list (six concerns exceed
\* the threshold of five), none or one positive keyword
KeywordProfiles ==
    [critical : {0, 1}, high : {0, 3}, moderate : {0, 3}, positive : {0, 1}]

\* the classifier results analysed with every keyword profile: the whole
\* score on joy, on sadness or on neutral
KeywordTexts ==
    {c \in TextAnalysisInputs :
         \E k \in {"joy", "sadness", "neutral"} :
             c = [l \in Range(TextLabels) |->
                      IF l = k THEN ProbDen ELSE 0]}

\* the results of the texts of a batch: one label holds the whole score, or
\* the analysis of the text failed (None)
BatchResults ==
    {TiedResult(Range(ClassifierLabels), {k}) : k \in Range(ClassifierLabels)}
        \cup {EmptyMap}

\* model.predict(cropped_img)[0] for one face
Predictions == TiedResults(Range(PredictionIndices))

(***************************************************************************)
(* The state machine: one analysis at a time, then the page is rerun.      *)
(***************************************************************************)
AnalysisIdle ==
    /\ pc = "idle"
    /\ module = "none"
    /\ vec = EmptyMap
    /\ out_wellness = NoScore
    /\ out_risk = NoScore
    /\ out_wellness_level = ""
    /\ out_risk_level = ""
    /\ out_dominant = ""
    /\ out_insights = << >>
    /\ in_keywords = NoKeywords
    /\ out_recommendation = ""
    /\ out_saved = << >>

\* st.session_state before any page of the session has run
NoSession ==
    /\ session_page = "none"
    /\ handler = "none"
    /\ dropped = 0
    /\ st_text_session_data = << >>
    /\ text_results = EmptyMap
    /\ text_analytics = NoAnalytics
    /\ st_camera_running = FALSE
    /\ st_emotion_log = << >>
    /\ st_emotion_counts = rt_emotion_counts
    /\ frame_count = 0
    /\ logged_prediction = EmptyMap
    /\ rt_view = "controls"
    /\ rt_analysis = NoAnalysis
    /\ db_saved = << >>
    /\ log_owners = {}

\* the executions that may run side by side
Executions == {1, 2}

\* no execution is inside the recording step
NoExecution ==
    /\ exec_pc = [e \in Executions |-> "idle"]
    /\ exec_emotion = [e \in Executions |-> ""]
    /\ exec_read = [e \in Executions |-> 0]

\* the account state after a login: the session document is stored, the
\* token is in st.session_state and in the query parameters
SignedIn(username, password, session_token) ==
    LET user == authenticate_user(username, password)
    IN  /\ db_handler = "mongo"
        /\ db_sessions = create_session({}, session_token, user)
        /\ st_authenticated = TRUE
        /\ st_user_id = user.user_id
        /\ st_username = user.username
        /\ st_email = user.email
        /\ st_session_token = session_token
        /\ query_token = session_token
        /\ login_form = [username |-> username, password |-> password]
        /\ issued = {session_token}
        /\ revoked = {}

\* alice has logged in
AliceSignedIn == SignedIn("alice", "pw_alice", 1)

Init == AnalysisIdle /\ NoSession /\ NoExecution /\ AliceSignedIn

\* an analysis of module m ran on input v and its results are displayed
ShowResults(m, v, w, r, wl, rl, dominant, insights, kw, recommendation, saved) ==
    /\ pc' = "shown"
    /\ module' = m
    /\ vec' = v
    /\ out_wellness' = w
    /\ out_risk' = r
    /\ out_wellness_level' = wl
    /\ out_risk_level' = rl
    /\ out_dominant' = dominant
    /\ out_insights' = insights
    /\ in_keywords' = kw
    /\ out_recommendation' = recommendation
    /\ out_saved' = saved
    /\ UNCHANGED <<session_vars, account_vars, exec_vars>>

\* an analysis that finds no keywords, recommends nothing and saves nothing
ShowAll(m, v, w, r, wl, rl, dominant, insights) ==
    ShowResults(m, v, w, r, wl, rl, dominant, insights, NoKeywords, "",
                << >>)

\* an analysis that determines no dominant emotion and generates no insights
Show(m, v, w, r, wl, rl) == ShowAll(m, v, w, r, wl, rl, "", << >>)

ScoreTextEmotionOn(emotion_data) ==
    LET wellness == text_emotion_calculate_wellness_score(emotion_data)
        risk == text_emotion_calculate_risk_score(emotion_data)
    IN  Show("text_emotion", emotion_data, wellness, risk,
             get_wellness_level(wellness), get_risk_level(risk))

\* test_text_emotion_integration.py, Test 4 and Test 5 (the same calls as
\* display_session_analytics makes on its emotion_counts)
ScoreTextEmotion ==
    /\ pc = "idle"
    /\ \/ \E c \in TextEmotionInputs : ScoreTextEmotionOn(AsCounts(c))
       \/ ScoreTextEmotionOn(EmptyMap)
       \/ ScoreTextEmotionOn(AsCounts(ScenarioB))
       \/ \E c \in TextEmotionSignedInputs : ScoreTextEmotionOn(AsCounts(c))

\* get_risk_level / get_wellness_level called on a score directly
GetLevels ==
    /\ pc = "idle"
    /\ \E s \in 0 .. MaxLookup :
           LET score == Rat(s, 100)
           IN  Show("lookup", [score |-> score], score, score,
                    get_wellness_level(score), get_risk_level(score))

\* the save of analyze_text under "if db_handler and user_id"
AnalyzeTextSave(analysis_data, inserted) ==
    IF CanSave(db_handler, st_user_id)
    THEN text_analysis_save(<< >>, st_user_id, analysis_data, inserted)
    ELSE << >>

AnalyzeTextOn(emotion_results, found_keywords, inserted) ==
    LET risk_score == analyze_text_risk_score(emotion_results)
        wellness_score == analyze_text_wellness_score(emotion_results)
        risk_level == analyze_text_risk_level(risk_score)
        emotion_label == analyze_text_dominant_emotion(emotion_results)
    IN  ShowResults("text_analysis", emotion_results, wellness_score,
                    risk_score, "", risk_level, emotion_label, << >>,
                    found_keywords,
                    analyze_text_recommendation(found_keywords, risk_level),
                    AnalyzeTextSave(
                        text_analysis_data(emotion_label, risk_level,
                                           risk_score, wellness_score,
                                           found_keywords), inserted))

\* analyze_text with the classifier loaded: every classifier result on a
\* text without keywords, and every keyword profile on the texts of
\* KeywordTexts
AnalyzeText ==
    /\ pc = "idle"
    /\ \E inserted \in BOOLEAN :
           \/ \E c \in TextAnalysisInputs :
                  AnalyzeTextOn(AsScores(c, 1), NoKeywords, inserted)
           \/ AnalyzeTextOn(AsPercentScores(ScenarioB), NoKeywords, inserted)
           \/ \E c \in KeywordTexts, found_keywords \in KeywordProfiles :
                  AnalyzeTextOn(AsScores(c, 1), found_keywords, inserted)

\* analyze_text when load_emotion_model returned None: TextBlob fallback
AnalyzeTextFallback ==
    /\ pc = "idle"
    /\ \E p \in -PolDen .. PolDen :
           LET sentiment_polarity == Rat(p, PolDen)
               risk_score == analyze_text_fallback_risk_score(sentiment_polarity)
               wellness_score ==
                   analyze_text_fallback_wellness_score(sentiment_polarity)
               risk_level == analyze_text_risk_level(risk_score)
           IN  \E found_keywords \in KeywordProfiles, inserted \in BOOLEAN :
                   ShowResults(
                       "text_analysis_fallback",
                       [polarity |-> sentiment_polarity], wellness_score,
                       risk_score, "", risk_level, "", << >>,
                       found_keywords,
                       analyze_text_recommendation(found_keywords,
                                                   risk_level),
                       AnalyzeTextSave(
                           text_analysis_data(
                               analyze_text_fallback_label(sentiment_polarity),
                               risk_level, risk_score, wellness_score,
                               found_keywords), inserted))

\* the realtime scorers applied to a session's counts, total_frames being
\* the number of logged samples, and the tier display_analysis_results shows
ScoreRealtime ==
    /\ pc = "idle"
    /\ \E c \in RealtimeInputs :
           LET emotion_counts == AsCounts(c)
               total_frames == SumValues(emotion_counts, DOMAIN emotion_counts)
               wellness_score ==
                   realtime_calculate_wellness_score(emotion_counts, total_frames)
               risk_score ==
                   realtime_calculate_risk_score(emotion_counts, total_frames)
           IN  Show("realtime", emotion_counts, wellness_score, risk_score,
                    "", realtime_risk_level(risk_score))

\* the scores are computed whatever predict_emotion returned; on {} the
\* confidence, max(emotion_scores.values()), raises before the tier is
\* computed, and the except clause of analyze_audio ends the analysis
\* the database save comes after the confidence, under
\* "if db_handler and user_id"
AnalyzeAudioOn(emotion_scores, inserted) ==
    LET wellness_score == voice_calculate_wellness_score(emotion_scores)
        risk_score == voice_calculate_risk_score(emotion_scores)
    IN  ShowResults("voice", emotion_scores, wellness_score, risk_score, "",
                    IF emotion_scores = EmptyMap THEN ""
                    ELSE voice_risk_level(risk_score),
                    "", << >>, NoKeywords, "",
                    IF emotion_scores # EmptyMap
                           /\ CanSave(db_handler, st_user_id)
                    THEN voice_save(<< >>, st_user_id, wellness_score,
                                    risk_score, inserted)
                    ELSE << >>)

\* analyze_audio: scores and tier computed from predict_emotion's result,
\* which is {} when the prediction failed
AnalyzeAudio ==
    /\ pc = "idle"
    /\ \E inserted \in BOOLEAN :
           \/ \E c \in VoiceInputs :
                  AnalyzeAudioOn(AsScores(c, 100), inserted)
           \/ AnalyzeAudioOn(EmptyMap, inserted)

\* one call of generate_voice_insights
VoiceInsightsOn(emotions, tempo, risk_score) ==
    ShowAll("voice_insights", emotions, NoScore, FromInt(risk_score), "", "",
            IF emotions = EmptyMap THEN ""
            ELSE FirstMax(VoiceInsightLabels, emotions),
            generate_voice_insights(emotions, tempo, FromInt(risk_score)))

VoiceInsights ==
    /\ pc = "idle"
    /\ \E tempo \in VoiceInsightTempos, risk_score \in VoiceInsightRisks :
           \/ \E c \in VoiceInsightInputs :
                  VoiceInsightsOn(AsScores(c, 100), tempo, risk_score)
           \/ VoiceInsightsOn(EmptyMap, tempo, risk_score)

\* analyze_face: the dominant emotion, risk score, tier and insights of one
\* detected face
AnalyzeFace ==
    /\ pc = "idle"
    /\ \E c \in FacialInputs :
           LET emotions == AsScores(c, 100)
               dominant_emotion == analyze_face_dominant_emotion(emotions)
               risk_score == calculate_facial_risk_score(emotions)
           IN  ShowAll("facial", emotions, NoScore, risk_score,
                       "", facial_risk_level(risk_score), dominant_emotion,
                       generate_facial_insights(emotions, risk_score,
                                                dominant_emotion))

\* the next script run starts from a fresh page
Rerun ==
    /\ pc = "shown"
    /\ pc' = "idle"
    /\ module' = "none"
    /\ vec' = EmptyMap
    /\ out_wellness' = NoScore
    /\ out_risk' = NoScore
    /\ out_wellness_level' = ""
    /\ out_risk_level' = ""
    /\ out_dominant' = ""
    /\ out_insights' = << >>
    /\ in_keywords' = NoKeywords
    /\ out_recommendation' = ""
    /\ out_saved' = << >>
    /\ UNCHANGED <<session_vars, account_vars, exec_vars>>

Next ==
    \/ ScoreTextEmotion
    \/ GetLevels
    \/ AnalyzeText
    \/ AnalyzeTextFallback
    \/ ScoreRealtime
    \/ AnalyzeAudio
    \/ VoiceInsights
    \/ AnalyzeFace
    \/ Rerun

Spec == Init /\ [][Next]_vars

TypeOK ==
    /\ pc \in {"idle", "shown"}
    /\ module \in {"none", "text_emotion", "lookup", "text_analysis",
                   "text_analysis_fallback", "realtime", "voice",
                   "voice_insights", "facial"}

(***************************************************************************)
(* The sessions: every action is one script run of the page, from the      *)
(* handler of the widget that triggered it to the end of the script.       *)
(***************************************************************************)
SessionPages == {"text_emotion", "realtime_emotion"}

\* the state after the first script run of the page: the session keys are
\* initialised, display_session_analytics has found no texts
SessionInit ==
    /\ AnalysisIdle
    /\ NoExecution
    /\ AliceSignedIn
    /\ session_page \in SessionPages
    /\ handler = "load"
    /\ dropped = 0
    /\ st_text_session_data = << >>
    /\ text_results = EmptyMap
    /\ text_analytics =
           IF session_page = "text_emotion"
           THEN display_session_analytics(<< >>) ELSE NoAnalytics
    /\ st_camera_running = FALSE
    /\ st_emotion_log = << >>
    /\ st_emotion_counts = rt_emotion_counts
    /\ frame_count = 0
    /\ logged_prediction = EmptyMap
    /\ rt_view = "controls"
    /\ rt_analysis = NoAnalysis
    /\ db_saved = << >>
    /\ log_owners = {}

\* a script run of text_emotion_page that leaves session_data in the
\* session and ends with display_session_analytics
TextScript(h, session_data, results, d) ==
    /\ handler' = h
    /\ dropped' = d
    /\ st_text_session_data' = session_data
    /\ text_results' = results
    /\ text_analytics' = display_session_analytics(session_data)
    /\ UNCHANGED <<session_page, realtime_vars, analysis_vars, account_vars,
                   exec_vars>>

\* "Analyze Emotion": the text is blank or analyze_text_emotion returns
\* None (no results), or the classifier's results are sorted and the entry
\* is appended
AnalyzeEmotion ==
    /\ session_page = "text_emotion"
    /\ Len(st_text_session_data) < MaxTexts
    /\ \/ TextScript("analyze", st_text_session_data, EmptyMap, 0)
       \/ \E results \in TextResults :
              TextScript("analyze",
                         append_session_entry(st_text_session_data, results),
                         results, 0)

\* the texts of a batch or of a file, analysed one after the other
AnalyzeTexts(h) ==
    /\ session_page = "text_emotion"
    /\ \E n \in 1 .. MaxBatch :
           /\ Len(st_text_session_data) + n <= MaxTexts
           /\ \E batch \in [1 .. n -> BatchResults] :
                  TextScript(h,
                             append_session_entries(st_text_session_data, batch),
                             batch[n], 0)

\* "Analyze Batch"
AnalyzeBatch == AnalyzeTexts("batch")

\* "Analyze File"
AnalyzeFile == AnalyzeTexts("file")

\* "Reset Session", then st.rerun()
ResetSession ==
    /\ session_page = "text_emotion"
    /\ TextScript("reset", reset_session(st_text_session_data), EmptyMap,
                  Len(st_text_session_data))

\* any other interaction with the page: the script runs again
TextPageRerun ==
    /\ session_page = "text_emotion"
    /\ TextScript("rerun", st_text_session_data, EmptyMap, 0)

\* session_doc of the "Save to Database" button
text_emotion_session_doc(session_data) ==
    LET emotion_counts == te_count_loop(session_data, te_emotion_counts)
    IN  [session_type |-> "text_emotion",
         total_texts |-> Len(session_data),
         emotion_distribution |-> emotion_counts,
         wellness_score |->
             text_emotion_calculate_wellness_score(AsCounts(emotion_counts)),
         risk_score |->
             text_emotion_calculate_risk_score(AsCounts(emotion_counts))]

\* "Save to Database": the button is below display_session_analytics, so
\* it is there when the session is not empty and the analytics were shown;
\* the script runs up to the button and saves through a new MongoDBHandler
SaveToDatabase ==
    /\ session_page = "text_emotion"
    /\ Len(st_text_session_data) > 0
    /\ display_session_analytics(st_text_session_data).status = "shown"
    /\ Len(db_saved) < MaxSaves
    /\ handler' = "save"
    /\ dropped' = 0
    /\ text_results' = EmptyMap
    /\ text_analytics' = display_session_analytics(st_text_session_data)
    /\ \E inserted \in BOOLEAN :
           db_saved' =
               text_emotion_save(
                   db_saved, text_emotion_session_doc(st_text_session_data),
                   inserted)
    /\ UNCHANGED <<session_page, st_text_session_data, st_camera_running,
                   st_emotion_log, st_emotion_counts, frame_count,
                   logged_prediction, rt_view, rt_analysis, log_owners,
                   analysis_vars, account_vars, exec_vars>>

\* a script run of realtime_emotion_page after the handlers: the webcam
\* loop is entered when camera_running (unless the camera cannot be
\* opened), else the results are displayed when there is a log
RealtimeRun(h, camera_running, emotion_log, emotion_counts, d) ==
    /\ st_authenticated
    /\ handler' = h
    /\ dropped' = d
    /\ st_emotion_log' = emotion_log
    /\ st_emotion_counts' = emotion_counts
    /\ frame_count' = 0
    /\ logged_prediction' =
           IF emotion_log = << >> THEN EmptyMap ELSE logged_prediction
    /\ log_owners' = IF emotion_log = << >> THEN {} ELSE log_owners
    /\ \/ /\ camera_running
          /\ st_camera_running' = TRUE
          /\ rt_view' = "live"
          /\ rt_analysis' = NoAnalysis
          /\ db_saved' = IF emotion_log = << >> THEN << >> ELSE db_saved
       \/ /\ camera_running
          /\ st_camera_running' = FALSE
          /\ rt_view' = "controls"
          /\ rt_analysis' = NoAnalysis
          /\ db_saved' = IF emotion_log = << >> THEN << >> ELSE db_saved
       \/ /\ ~camera_running
          /\ st_camera_running' = FALSE
          /\ rt_view' = IF Len(emotion_log) > 0 THEN "results" ELSE "controls"
          /\ rt_analysis' =
                 IF Len(emotion_log) > 0
                 THEN display_analysis_results(emotion_log, emotion_counts)
                 ELSE NoAnalysis
          /\ IF Len(emotion_log) > 0 /\ CanSave(db_handler, st_user_id)
             THEN /\ Len(db_saved) < MaxSaves
                  /\ \E inserted \in BOOLEAN :
                         db_saved' =
                             save_analysis(
                                 db_saved, st_user_id, "realtime_emotion",
                                 realtime_analysis_data(
                                     display_analysis_results(emotion_log,
                                                              emotion_counts)),
                                 inserted)
             ELSE db_saved' = IF emotion_log = << >> THEN << >> ELSE db_saved
    /\ UNCHANGED <<text_vars, analysis_vars, account_vars, exec_vars>>

\* a script run of the page the session is already on
RealtimeScript(h, camera_running, emotion_log, emotion_counts, d) ==
    /\ RealtimeRun(h, camera_running, emotion_log, emotion_counts, d)
    /\ UNCHANGED session_page

\* "Start Webcam", then st.rerun()
StartWebcam ==
    /\ session_page = "realtime_emotion"
    /\ rt_view # "hidden"
    /\ RealtimeScript("start", TRUE, << >>,
                      start_emotion_counts(st_emotion_counts),
                      Len(st_emotion_log))

\* "Stop & Analyze", then st.rerun()
StopAndAnalyze ==
    /\ session_page = "realtime_emotion"
    /\ rt_view # "hidden"
    /\ RealtimeScript("stop", FALSE, st_emotion_log, st_emotion_counts, 0)

\* any other interaction with the page: the script runs again
RealtimePageRerun ==
    /\ session_page = "realtime_emotion"
    /\ RealtimeScript("rerun", st_camera_running, st_emotion_log,
                      st_emotion_counts, 0)

\* one iteration of "for (x, y, w, h) in faces": the face's emotion is
\* predicted and, on every LogEvery-th frame, logged and counted
ProcessFaceOn(predictions) ==
    /\ session_page = "realtime_emotion"
    /\ rt_view = "live"
    /\ (frame_count % LogEvery = 0) => Len(st_emotion_log) < MaxLog
    /\ \E prediction \in predictions :
           LET current_emotion == current_emotion_of(prediction)
           IN  IF frame_count % LogEvery = 0
               THEN /\ st_emotion_log' = Append(st_emotion_log, current_emotion)
                    /\ st_emotion_counts' =
                           count_emotion(st_emotion_counts, current_emotion)
                    /\ logged_prediction' = prediction
                    /\ log_owners' = log_owners \cup {st_user_id}
               ELSE UNCHANGED <<st_emotion_log, st_emotion_counts,
                                logged_prediction, log_owners>>
    /\ handler' = "face"
    /\ dropped' = 0
    /\ UNCHANGED <<st_camera_running, frame_count, rt_view, rt_analysis,
                   db_saved>>
    /\ UNCHANGED <<session_page, text_vars, analysis_vars, account_vars,
                   exec_vars>>

\* a face with any prediction of the model
ProcessFace == ProcessFaceOn(Predictions)

\* the end of one iteration of the webcam loop: "frame_count += 1"
NextFrame ==
    /\ session_page = "realtime_emotion"
    /\ rt_view = "live"
    /\ frame_count < MaxFrames
    /\ frame_count' = frame_count + 1
    /\ handler' = "frame"
    /\ dropped' = 0
    /\ UNCHANGED <<st_camera_running, st_emotion_log, st_emotion_counts,
                   logged_prediction, rt_view, rt_analysis, db_saved,
                   log_owners>>
    /\ UNCHANGED <<session_page, text_vars, analysis_vars, account_vars,
                   exec_vars>>

\* cap.read() fails: the loop breaks and the script ends
CaptureFailed ==
    /\ session_page = "realtime_emotion"
    /\ rt_view = "live"
    /\ rt_view' = "ended"
    /\ handler' = "capture_failed"
    /\ dropped' = 0
    /\ UNCHANGED <<st_camera_running, st_emotion_log, st_emotion_counts,
                   frame_count, logged_prediction, rt_analysis, db_saved,
                   log_owners>>
    /\ UNCHANGED <<session_page, text_vars, analysis_vars, account_vars,
                   exec_vars>>

SessionNext ==
    \/ AnalyzeEmotion
    \/ AnalyzeBatch
    \/ AnalyzeFile
    \/ ResetSession
    \/ TextPageRerun
    \/ SaveToDatabase
    \/ StartWebcam
    \/ StopAndAnalyze
    \/ RealtimePageRerun
    \/ ProcessFace
    \/ NextFrame
    \/ CaptureFailed

SessionSpec == SessionInit /\ [][SessionNext]_vars

SessionTypeOK ==
    /\ session_page \in SessionPages \cup {"none"}
    /\ st_camera_running \in BOOLEAN
    /\ frame_count \in 0 .. MaxFrames
    /\ Len(st_text_session_data) <= MaxTexts
    /\ Len(st_emotion_log) <= MaxLog
    /\ rt_view \in {"controls", "live", "ended", "results", "hidden"}
    /\ Len(db_saved) <= MaxSaves

(***************************************************************************)
(* The account of the browser session (app.py main, modules/auth.py):      *)
(* every action is one script run of the app, from the widget that         *)
(* triggered it to the page it ends on.  session_page is "login" while     *)
(* show_login_page is displayed, else the selected page.                   *)
(***************************************************************************)
\* the login form before it is submitted
NoForm == [username |-> "", password |-> ""]

\* the usernames and passwords typed into the login form
Usernames == {"alice", "bob"}
Passwords == {"pw_alice", "pw_bob"}

\* the prediction of the faces recorded in an account session: "Sad"
AccountPredictions == {TiedResult(Range(PredictionIndices), {5})}

\* st.session_state of a new browser session: no key is set
NewSessionState ==
    /\ handler = "load"
    /\ dropped = 0
    /\ st_text_session_data = << >>
    /\ text_results = EmptyMap
    /\ text_analytics = NoAnalytics
    /\ st_camera_running = FALSE
    /\ st_emotion_log = << >>
    /\ st_emotion_counts = rt_emotion_counts
    /\ frame_count = 0
    /\ logged_prediction = EmptyMap
    /\ rt_view = "hidden"
    /\ rt_analysis = NoAnalysis
    /\ db_saved = << >>
    /\ log_owners = {}

\* the app is opened without a token; init_db returned a handler or None
AccountInit ==
    /\ AnalysisIdle
    /\ NoExecution
    /\ NewSessionState
    /\ session_page = "login"
    /\ db_handler \in {"mongo", "none"}
    /\ db_sessions = {}
    /\ st_authenticated = FALSE
    /\ st_user_id = None
    /\ st_username = None
    /\ st_email = None
    /\ st_session_token = NoToken
    /\ query_token = NoToken
    /\ login_form = NoForm
    /\ issued = {}
    /\ revoked = {}

\* the five keys set from a user document or a session document
SetAuthenticated(user, session_token) ==
    /\ st_authenticated' = TRUE
    /\ st_user_id' = user.user_id
    /\ st_username' = user.username
    /\ st_email' = user.email
    /\ st_session_token' = session_token

\* "Clear session state" of logout
ClearSessionState ==
    /\ st_authenticated' = FALSE
    /\ st_user_id' = None
    /\ st_username' = None
    /\ st_email' = None
    /\ st_session_token' = NoToken

\* the realtime page is not displayed; its session keys stay as they are
LeaveRealtimePage ==
    /\ rt_view' = "hidden"
    /\ rt_analysis' = NoAnalysis
    /\ frame_count' = 0
    /\ dropped' = 0
    /\ UNCHANGED <<st_camera_running, st_emotion_log, st_emotion_counts,
                   logged_prediction, db_saved, log_owners>>

\* the login form is submitted: authenticate_user, then create_session,
\* which returns a new token or None (created is FALSE); on success the
\* token goes to the query parameters and the session state and the app
\* reruns on the Dashboard
Login ==
    /\ session_page = "login"
    /\ ~st_authenticated
    /\ db_handler # "none"
    /\ \E username \in Usernames, password \in Passwords, created \in BOOLEAN :
           LET user == authenticate_user(username, password)
               session_token == Cardinality(issued) + 1
           IN  /\ (user # NoUserData /\ created) =>
                      Cardinality(issued) < MaxTokens
               /\ login_form' = [username |-> username, password |-> password]
               /\ IF user # NoUserData /\ created
                  THEN /\ db_sessions' =
                              create_session(db_sessions, session_token, user)
                       /\ issued' = issued \cup {session_token}
                       /\ query_token' = session_token
                       /\ SetAuthenticated(user, session_token)
                       /\ session_page' = "dashboard"
                       /\ handler' = "login"
                  ELSE /\ handler' = "login_failed"
                       /\ UNCHANGED <<db_sessions, issued, query_token,
                                      auth_state_vars, session_page>>
    /\ LeaveRealtimePage
    /\ UNCHANGED <<db_handler, revoked, text_vars, analysis_vars, exec_vars>>

\* "Continue in Demo Mode", offered when db_handler is None
DemoMode ==
    /\ session_page = "login"
    /\ ~st_authenticated
    /\ db_handler = "none"
    /\ st_authenticated' = TRUE
    /\ st_user_id' = "demo_user"
    /\ st_username' = "Demo User"
    /\ st_email' = "demo@example.com"
    /\ session_page' = "dashboard"
    /\ handler' = "demo"
    /\ LeaveRealtimePage
    /\ UNCHANGED <<st_session_token, db_handler, db_sessions, query_token,
                   login_form, issued, revoked, text_vars, analysis_vars,
                   exec_vars>>

\* "Logout": delete_session on the active token (deleted is FALSE when
\* delete_one raised and delete_session returned False, which logout does
\* not look at), the query parameter is removed, the five keys are
\* cleared and the app reruns on the login page
Logout ==
    /\ st_authenticated
    /\ \E deleted \in BOOLEAN :
           db_sessions' =
               IF db_handler # "none" /\ st_session_token # NoToken /\ deleted
               THEN delete_session(db_sessions, st_session_token)
               ELSE db_sessions
    /\ revoked' =
           IF db_handler # "none" /\ st_session_token # NoToken
           THEN revoked \cup {st_session_token} ELSE revoked
    /\ query_token' = NoToken
    /\ ClearSessionState
    /\ session_page' = "login"
    /\ handler' = "logout"
    /\ login_form' = NoForm
    /\ LeaveRealtimePage
    /\ UNCHANGED <<db_handler, issued, text_vars, analysis_vars, exec_vars>>

\* the app is opened in a new browser session with session_token in the
\* query parameters (NoToken: without one): check_authentication calls
\* init_session_from_cookie when there is a handler, which restores the
\* session get_session returns or removes the query parameter
OpenPage ==
    /\ \E session_token \in 0 .. MaxTokens + 1 :
           LET session_data ==
                   IF db_handler = "none" \/ session_token = NoToken
                   THEN NoUserData
                   ELSE get_session(db_sessions, session_token)
           IN  IF session_data # NoUserData
               THEN /\ SetAuthenticated(session_data, session_token)
                    /\ query_token' = session_token
                    /\ session_page' = "dashboard"
                    /\ handler' = "restore"
               ELSE /\ ClearSessionState
                    /\ query_token' =
                           IF db_handler = "none" THEN session_token
                           ELSE NoToken
                    /\ session_page' = "login"
                    /\ handler' = "load"
    /\ dropped' = 0
    /\ st_camera_running' = FALSE
    /\ st_emotion_log' = << >>
    /\ st_emotion_counts' = rt_emotion_counts
    /\ frame_count' = 0
    /\ logged_prediction' = EmptyMap
    /\ rt_view' = "hidden"
    /\ rt_analysis' = NoAnalysis
    /\ db_saved' = << >>
    /\ log_owners' = {}
    /\ login_form' = NoForm
    /\ UNCHANGED <<db_handler, db_sessions, issued, revoked, text_vars,
                   analysis_vars, exec_vars>>

\* expires_at of a session document passes
ExpireSession ==
    /\ \E x \in db_sessions :
           /\ ~x.expired
           /\ db_sessions' =
                  (db_sessions \ {x}) \cup {[x EXCEPT !.expired = TRUE]}
    /\ UNCHANGED <<db_handler, auth_state_vars, query_token, login_form,
                   issued, revoked, session_vars, analysis_vars, exec_vars>>

\* "Real-Time Emotion" is selected in the menu: realtime_emotion_page runs
\* on the session keys as they are
ShowRealtime ==
    /\ session_page = "dashboard"
    /\ session_page' = "realtime_emotion"
    /\ RealtimeRun("select", st_camera_running, st_emotion_log,
                   st_emotion_counts, 0)

\* "Dashboard" is selected in the menu
ShowDashboard ==
    /\ st_authenticated
    /\ session_page = "realtime_emotion"
    /\ session_page' = "dashboard"
    /\ handler' = "select"
    /\ LeaveRealtimePage
    /\ UNCHANGED <<text_vars, analysis_vars, account_vars, exec_vars>>

\* a face in the webcam loop of a signed-in user
RecordFace == ProcessFaceOn(AccountPredictions)

AccountNext ==
    \/ Login
    \/ DemoMode
    \/ Logout
    \/ OpenPage
    \/ ExpireSession
    \/ ShowRealtime
    \/ ShowDashboard
    \/ StartWebcam
    \/ StopAndAnalyze
    \/ RealtimePageRerun
    \/ RecordFace

AccountSpec == AccountInit /\ [][AccountNext]_vars

AccountTypeOK ==
    /\ session_page \in {"login", "dashboard", "realtime_emotion"}
    /\ db_handler \in {"mongo", "none"}
    /\ st_authenticated \in BOOLEAN
    /\ st_session_token \in 0 .. MaxTokens
    /\ issued \subseteq 1 .. MaxTokens
    /\ revoked \subseteq issued
    /\ (session_page = "login") = ~st_authenticated
    /\ (rt_view = "hidden") = (session_page # "realtime_emotion")
    /\ Len(st_emotion_log) <= MaxLog
    /\ Len(db_saved) <= MaxSaves

(***************************************************************************)
(* The recording step of the webcam loop (realtime_emotion_page, "Log      *)
(* emotion"), run by two executions on the same session state.  The step   *)
(* takes no lock: the append and the "+= 1", which reads the count, adds   *)
(* one and stores the sum, are separate steps of the interpreter.          *)
(***************************************************************************)
\* a session in which the webcam loop is running
RecordInit ==
    /\ AnalysisIdle
    /\ NoExecution
    /\ AliceSignedIn
    /\ session_page = "realtime_emotion"
    /\ handler = "start"
    /\ dropped = 0
    /\ st_text_session_data = << >>
    /\ text_results = EmptyMap
    /\ text_analytics = NoAnalytics
    /\ st_camera_running = TRUE
    /\ st_emotion_log = << >>
    /\ st_emotion_counts = rt_emotion_counts
    /\ frame_count = 0
    /\ logged_prediction = EmptyMap
    /\ rt_view = "live"
    /\ rt_analysis = NoAnalysis
    /\ db_saved = << >>
    /\ log_owners = {}

\* a step of execution e that leaves the log and the counts as given
RecordStep(e, next_pc, emotion, read, emotion_log, emotion_counts) ==
    /\ exec_pc' = [exec_pc EXCEPT ![e] = next_pc]
    /\ exec_emotion' = [exec_emotion EXCEPT ![e] = emotion]
    /\ exec_read' = [exec_read EXCEPT ![e] = read]
    /\ st_emotion_log' = emotion_log
    /\ st_emotion_counts' = emotion_counts
    /\ UNCHANGED <<session_page, handler, dropped, text_vars,
                   st_camera_running, frame_count, logged_prediction,
                   rt_view, rt_analysis, db_saved, log_owners,
                   analysis_vars, account_vars>>

\* "current_emotion = emotion_dict[maxindex]" on a frame that is logged
PredictEmotion ==
    \E e \in Executions :
        /\ exec_pc[e] = "idle"
        /\ Len(st_emotion_log)
               + Cardinality({x \in Executions : exec_pc[x] = "append"})
           < MaxLog
        /\ \E current_emotion \in Range(RealtimeLabels) :
               RecordStep(e, "append", current_emotion, 0,
                          st_emotion_log, st_emotion_counts)

\* "st.session_state.emotion_log.append({...})"
AppendToLog ==
    \E e \in Executions :
        /\ exec_pc[e] = "append"
        /\ RecordStep(e, "read", exec_emotion[e], 0,
                      Append(st_emotion_log, exec_emotion[e]),
                      st_emotion_counts)

\* "emotion_counts[current_emotion] += 1", first half: the count is read
ReadCount ==
    \E e \in Executions :
        /\ exec_pc[e] = "read"
        /\ RecordStep(e, "write", exec_emotion[e],
                      st_emotion_counts[exec_emotion[e]],
                      st_emotion_log, st_emotion_counts)

\* "emotion_counts[current_emotion] += 1", second half: the sum is stored
WriteCount ==
    \E e \in Executions :
        /\ exec_pc[e] = "write"
        /\ RecordStep(e, "idle", "", 0, st_emotion_log,
                      [st_emotion_counts EXCEPT ![exec_emotion[e]] =
                           exec_read[e] + 1])

RecordNext ==
    \/ PredictEmotion
    \/ AppendToLog
    \/ ReadCount
    \/ WriteCount

RecordSpec == RecordInit /\ [][RecordNext]_vars

(***************************************************************************)
(* Vocabulary of the properties.                                           *)
(***************************************************************************)
Shown(m) == pc = "shown" /\ module = m

Total(v) == SumValues(v, DOMAIN v)

NonNegative(v) == \A k \in DOMAIN v : v[k].n >= 0

\* the value of key k, 0 when the key is absent
Val(v, k) == Get(v, k, FromInt(0))

\* the scale maximum of each module's scores
ScaleMax(m) == IF m \in {"text_emotion", "realtime", "lookup"} THEN 10 ELSE 100

\* the documented weight table, over the label spellings of all modules
DocWeight(label) ==
    CASE label \in {"sadness", "Sad"} -> Rat(45, 100)
      [] label \in {"fear", "Fearful", "Fear"} -> Rat(30, 100)
      [] label \in {"anger", "Angry"} -> Rat(20, 100)
      [] label \in {"disgust", "Disgusted", "Disgust"} -> Rat(15, 100)
      [] OTHER -> FromInt(0)

\* ((positive + 0.5 * neutral) / (positive + negative + neutral)) * scale_max
\* for the label partition pos / neg / {"neutral" or "Neutral"}
DocWellness(v, pos, neg, neu, scale_max) ==
    LET positive == SumGet(v, pos)
        negative == SumGet(v, neg)
        neutral == Val(v, neu)
    IN  RMul(RDiv(RAdd(positive, RMul(Rat(1, 2), neutral)),
                  RAdd(RAdd(positive, negative), neutral)),
             FromInt(scale_max))

(***************************************************************************)
(* C1                                                                      *)
(***************************************************************************)
OverSevenLabels(v) == \A k \in DOMAIN v : k \in Range(TextLabels) \/ v[k].n = 0

C1_Pre(v) ==
    /\ OverSevenLabels(v)
    /\ NonNegative(v)
    /\ RGt(SumGet(v, TextLabels), FromInt(0))

C1_Doc(v, scale_max) ==
    DocWellness(v, <<"joy", "surprise">>,
                <<"sadness", "anger", "fear", "disgust">>, "neutral", scale_max)

\* C1: over the seven text labels, with non-negative values and a non-zero
\* total, text_emotion.calculate_wellness_score returns
\* ((joy + surprise + 0.5 * neutral) / total) * 10 (at its two-decimal output
\* precision) and analyze_text computes the same ratio times 100.
C1_TextWellnessFormula ==
    /\ (Shown("text_emotion") /\ C1_Pre(vec))
           => out_wellness = PyRound(C1_Doc(vec, 10), 100)
    /\ (Shown("text_analysis") /\ C1_Pre(vec))
           => out_wellness = C1_Doc(vec, 100)

C1_Witness ==
    /\ Shown("text_emotion")
    /\ C1_Pre(vec)
    /\ Val(vec, "joy").n > 0
    /\ Val(vec, "neutral").n > 0
    /\ Val(vec, "sadness").n > 0

(***************************************************************************)
(* C2                                                                      *)
(***************************************************************************)
\* all of the input lies on one label
IsOneHot(v) == Cardinality({k \in DOMAIN v : v[k].n # 0}) = 1

HotLabel(v) == CHOOSE k \in DOMAIN v : v[k].n # 0

\* the share of the whole that the hot label holds is 1
C2_FullShare ==
    /\ IsOneHot(vec)
    /\ module = "text_analysis" => vec[HotLabel(vec)] = FromInt(1)
    /\ module = "voice" => vec[HotLabel(vec)] = FromInt(100)

\* C2: every risk scorer weighs sadness 0.45, fear 0.30, anger 0.20,
\* disgust 0.15 and every other label 0: an input that lies wholly on one
\* label scores that label's weight times the scale maximum.
C2_SameWeightTable ==
    (/\ pc = "shown"
     /\ module \in {"text_emotion", "text_analysis", "realtime", "voice"}
     /\ C2_FullShare)
        => out_risk = RMul(DocWeight(HotLabel(vec)), FromInt(ScaleMax(module)))

(***************************************************************************)
(* C3                                                                      *)
(***************************************************************************)
\* sum over the keys ks of weight[k] * (v[k] / whole) * scale_max
RECURSIVE C3_Doc(_, _, _, _)
C3_Doc(v, ks, whole, scale_max) ==
    IF ks = {} THEN FromInt(0)
    ELSE LET k == CHOOSE x \in ks : TRUE
         IN  RAdd(C3_Doc(v, ks \ {k}, whole, scale_max),
                  RMul(RMul(DocWeight(k), RDiv(v[k], whole)),
                       FromInt(scale_max)))

\* C3: the continuous risk scorers return the plain weighted sum, with no
\* presence threshold and no escalation bonus: analyze_text over the
\* classifier probabilities times 100, clamped to at most 100;
\* text_emotion.calculate_risk_score over count / sum of all values times 10.
C3_ContinuousRisk ==
    /\ (Shown("text_emotion") /\ RGt(Total(vec), FromInt(0)))
           => out_risk = PyRound(C3_Doc(vec, DOMAIN vec, Total(vec), 10), 100)
    /\ Shown("text_analysis")
           => out_risk = RMin(FromInt(100),
                              C3_Doc(vec, DOMAIN vec, FromInt(1), 100))

C3_Witness ==
    /\ Shown("text_emotion")
    /\ Val(vec, "other").n > 0
    /\ Val(vec, "sadness").n > 0
    /\ Val(vec, "fear").n > 0
    /\ Val(vec, "joy").n > 0

(***************************************************************************)
(* C4                                                                      *)
(***************************************************************************)
RealtimeNegative == {"Sad", "Fearful", "Angry", "Disgusted"}

\* count[label] / total_frames * 100 > 20, in integers
OverTwentyPercent(v, label) ==
    RGt(RMul(Val(v, label), FromInt(100)), RMul(FromInt(20), Total(v)))

\* the counts with the label's samples taken out, the frames staying
Without(v, label) == [v EXCEPT ![label] = FromInt(0)]

\* C4: in realtime_emotion.calculate_risk_score with total_frames > 0 a
\* negative label changes the risk (compared with the same session without
\* that label's counts) if and only if it holds strictly more than 20% of
\* the frames; at exactly 20% or less it contributes nothing.
C4_PresenceThreshold ==
    (Shown("realtime") /\ RGt(Total(vec), FromInt(0)))
        => \A label \in RealtimeNegative :
               OverTwentyPercent(vec, label)
                   <=> out_risk # realtime_calculate_risk_score(
                                      Without(vec, label), Total(vec))

C4_Witness ==
    /\ Shown("realtime")
    /\ Val(vec, "Sad").n > 0
    /\ RMul(Val(vec, "Sad"), FromInt(100)) = RMul(FromInt(20), Total(vec))
    /\ OverTwentyPercent(vec, "Fearful")

(***************************************************************************)
(* C5                                                                      *)
(***************************************************************************)
C5_Exceeding(v) == {label \in RealtimeNegative : OverTwentyPercent(v, label)}

\* the risk on the 0-10 scale with the given bonus (in points) added once
\* when two or more negative labels exceed the threshold, then clamped
C5_Doc(v, bonus) ==
    LET base == RMul(rt_risk_loop(v, Total(v), DOMAIN rt_risk_weights),
                     FromInt(10))
        escalated == IF Cardinality(C5_Exceeding(v)) >= 2
                     THEN RAdd(base, bonus) ELSE base
    IN  PyRound(RMin(FromInt(10), escalated), 10)

\* C5 as stated: when two or more of Sad, Fearful, Angry, Disgusted each
\* exceed 20% of total_frames a bonus of 0.5 points on the 0-10 scale is
\* added once before clamping, and none otherwise.
C5_BonusHalfPoint ==
    (Shown("realtime") /\ RGt(Total(vec), FromInt(0)))
        => out_risk = C5_Doc(vec, Rat(1, 2))

\* C5 amended: the bonus is 0.5 on the 0-1 risk fraction, that is 5.0 points
\* on the 0-10 scale (0.5 * scale_max), added exactly once whether 2, 3 or 4
\* labels exceed the threshold, before clamping; none when fewer than two do.
C5_BonusFivePoints ==
    (Shown("realtime") /\ RGt(Total(vec), FromInt(0)))
        => out_risk = C5_Doc(vec, FromInt(5))

C5_Witness ==
    /\ Shown("realtime")
    /\ Cardinality(C5_Exceeding(vec)) >= 3

(***************************************************************************)
(* C6                                                                      *)
(***************************************************************************)
InScale(x, scale_max) ==
    /\ x.d # 0
    /\ RLe(FromInt(0), x)
    /\ RLe(x, FromInt(scale_max))

\* C6: on non-negative input every wellness score and every risk score of
\* text_emotion, text_analysis, realtime_emotion, voice_analysis and
\* facial_analysis lies in [0, scale_max], scale_max being 10 for
\* text_emotion and realtime_emotion and 100 for the others.
C6_ScoresInScale ==
    (/\ pc = "shown"
     /\ module \in {"text_emotion", "text_analysis", "realtime", "voice", "facial"}
     /\ NonNegative(vec))
        => /\ InScale(out_risk, ScaleMax(module))
           /\ module # "facial" => InScale(out_wellness, ScaleMax(module))

C6_Witness ==
    /\ Shown("voice")
    /\ Val(vec, "Sad") = FromInt(100)
    /\ Val(vec, "Fear") = FromInt(100)
    /\ out_risk = FromInt(100)

(***************************************************************************)
(* C7                                                                      *)
(***************************************************************************)
C7_RiskTable(s) ==
    CASE RGe(s, FromInt(7)) -> "Critical Risk"
      [] RGe(s, FromInt(5)) /\ RLt(s, FromInt(7)) -> "High Risk"
      [] RGe(s, FromInt(3)) /\ RLt(s, FromInt(5)) -> "Moderate Risk"
      [] RGe(s, FromInt(1)) /\ RLt(s, FromInt(3)) -> "Low Risk"
      [] RLt(s, FromInt(1)) -> "Minimal Risk"

C7_WellnessTable(s) ==
    CASE RGe(s, FromInt(8)) -> "Excellent"
      [] RGe(s, FromInt(6)) /\ RLt(s, FromInt(8)) -> "Good"
      [] RGe(s, FromInt(4)) /\ RLt(s, FromInt(6)) -> "Fair"
      [] RGe(s, FromInt(2)) /\ RLt(s, FromInt(4)) -> "Poor"
      [] RLt(s, FromInt(2)) -> "Critical"

RiskRank(level) ==
    CASE level = "Minimal Risk" -> 0
      [] level = "Low Risk" -> 1
      [] level = "Moderate Risk" -> 2
      [] level = "High Risk" -> 3
      [] level = "Critical Risk" -> 4

WellnessRank(level) ==
    CASE level = "Critical" -> 0
      [] level = "Poor" -> 1
      [] level = "Fair" -> 2
      [] level = "Good" -> 3
      [] level = "Excellent" -> 4

\* C7: get_risk_level and get_wellness_level follow the tier tables with
\* closed lower bounds (7.0 is Critical Risk, 6.99 High Risk; 8.0 Excellent),
\* give every score one tier, and never give a higher score a lower tier.
C7_TierLookups ==
    /\ (pc = "shown" /\ module \in {"lookup", "text_emotion"})
           => /\ out_risk_level = C7_RiskTable(out_risk)
              /\ out_wellness_level = C7_WellnessTable(out_wellness)
    /\ Shown("lookup")
           => \A t \in 0 .. MaxLookup :
                  RLe(Rat(t, 100), vec.score)
                      => /\ RiskRank(get_risk_level(Rat(t, 100)))
                                <= RiskRank(out_risk_level)
                         /\ WellnessRank(get_wellness_level(Rat(t, 100)))
                                <= WellnessRank(out_wellness_level)

C7_Witness ==
    /\ Shown("lookup")
    /\ out_risk = FromInt(7)
    /\ out_risk_level = "Critical Risk"
    /\ out_wellness_level = "Good"

(***************************************************************************)
(* C8                                                                      *)
(***************************************************************************)
\* a classifier output that sums to the whole (1, or 100 percent); a session
\* with at least one sample
Normalized(m, v) ==
    IF m = "realtime" THEN RGt(Total(v), FromInt(0))
    ELSE Total(v) = FromInt(IF m = "text_analysis" THEN 1 ELSE 100)

\* the tier a call site shows, in the table's wording
TierShown(level) ==
    CASE level = "Low" -> "Low Risk"
      [] level = "Moderate" -> "Moderate Risk"
      [] level = "High" -> "High Risk"
      [] level = "Critical" -> "Critical Risk"

\* C8: at every call site the tier shown for a risk score is the tier the
\* 0-10 risk table gives for the score rescaled to 0-10 (divided by 10 at
\* the 0-100 call sites).
C8_TierMatchesTable ==
    (/\ pc = "shown"
     /\ module \in {"text_analysis", "voice", "facial", "realtime"}
     /\ Normalized(module, vec))
        => TierShown(out_risk_level)
               = C7_RiskTable(IF module = "realtime" THEN out_risk
                              ELSE RDiv(out_risk, FromInt(10)))

(***************************************************************************)
(* C9                                                                      *)
(***************************************************************************)
\* an empty mapping, or one whose values are all zero
NoSignal(v) == \A k \in DOMAIN v : v[k].n = 0

\* C9: on input without signal every wellness scorer returns the scale
\* midpoint (5.0 in text_emotion and realtime_emotion, 50 in text_analysis
\* and voice_analysis), and the count-based risk scorers return a number
\* (no division by zero).
C9_NoSignalMidpoint ==
    (pc = "shown" /\ NoSignal(vec))
        => /\ module \in {"text_emotion", "realtime"}
                  => out_wellness = FromInt(5) /\ out_risk.d # 0
           /\ module \in {"text_analysis", "voice"}
                  => out_wellness = FromInt(50)

C9_Witness ==
    /\ Shown("text_emotion")
    /\ vec = EmptyMap
    /\ out_wellness = FromInt(5)
    /\ out_risk = FromInt(0)

(***************************************************************************)
(* C10                                                                     *)
(***************************************************************************)
C10_Doc(m, v) ==
    IF m = "realtime"
    THEN DocWellness(v, <<"Happy", "Surprised">>,
                     <<"Sad", "Angry", "Fearful", "Disgusted">>, "Neutral", 10)
    ELSE DocWellness(v, <<"Happy", "Surprise">>,
                     <<"Sad", "Angry", "Fear", "Disgust">>, "Neutral", 100)

\* C10: the realtime and voice wellness scorers use the text scorers'
\* partition, positive = Happy and Surprised/Surprise, neutral weighted by
\* 0.5; a session or vector that is all Neutral scores the midpoint.
C10_SharedPartition ==
    (pc = "shown" /\ module \in {"realtime", "voice"}
        /\ RGt(Total(vec), FromInt(0)))
        => out_wellness = PyRound(C10_Doc(module, vec), 10)

(***************************************************************************)
(* C11                                                                     *)
(***************************************************************************)
\* the count mapping v after one more sample of the label was recorded
C11_OneMore(v, label) ==
    [k \in DOMAIN v \cup {label} |->
        IF k = label THEN RAdd(Val(v, k), FromInt(1)) ELSE v[k]]

\* the continuous scorers of text_emotion under one more "sadness" sample
C11_TextMonotone ==
    Shown("text_emotion")
        => LET more == C11_OneMore(vec, "sadness")
           IN  /\ RGe(text_emotion_calculate_risk_score(more), out_risk)
               /\ RLe(text_emotion_calculate_wellness_score(more), out_wellness)

\* the threshold-gated scorers of realtime_emotion under one more "Sad"
\* sample, total_frames being the sum of the counts before and after
C11_RealtimeMonotone ==
    Shown("realtime")
        => LET more == C11_OneMore(vec, "Sad")
           IN  /\ RGe(realtime_calculate_risk_score(more, Total(more)), out_risk)
               /\ RLe(realtime_calculate_wellness_score(more, Total(more)),
                      out_wellness)

\* C11: for every count mapping, recording one more sadness / Sad sample
\* with all other counts fixed never decreases the risk score and never
\* increases the wellness score, in text_emotion and in realtime_emotion
\* (total_frames = sum of the counts).
C11_SadnessMonotone == C11_TextMonotone /\ C11_RealtimeMonotone

(***************************************************************************)
(* C12                                                                     *)
(***************************************************************************)
\* the scenario vector was the input of the analysis shown
C12_OnScenarioB ==
    \/ Shown("text_analysis") /\ vec = AsPercentScores(ScenarioB)
    \/ Shown("text_emotion") /\ vec = AsCounts(ScenarioB)

\* C12: for V = {sadness: 60, fear: 20, anger: 10, joy: 5, neutral: 5} the
\* dominant emotion is sadness and the text risk scorer's score exceeds the
\* High Risk threshold (5.0 of 10 in text_emotion, 50 of 100 in
\* text_analysis), so that the tier shown is High or above.
C12_ScenarioBHighRisk ==
    C12_OnScenarioB
        => /\ Shown("text_analysis") => out_dominant = "sadness"
           /\ RGt(out_risk, RDiv(FromInt(ScaleMax(module)), FromInt(2)))
           /\ out_risk_level \in {"High", "Critical", "High Risk", "Critical Risk"}

\* the half of C12 that the code satisfies: the dominant emotion
C12_ScenarioBDominant ==
    (C12_OnScenarioB /\ Shown("text_analysis")) => out_dominant = "sadness"

(***************************************************************************)
(* C13                                                                     *)
(***************************************************************************)
\* every count is a non-negative integer and the counts sum to n
C13_CountsOf(emotion_counts, n) ==
    /\ \A k \in DOMAIN emotion_counts : emotion_counts[k] \in Nat
    /\ Total(AsCounts(emotion_counts)) = FromInt(n)

\* C13: in every reachable state of a session, after any sequence of start
\* or reset, sample-recording and stop operations, every entry of the
\* emotion counts is a non-negative integer and the counts sum to the
\* number of samples recorded since the last reset: len(emotion_log) for
\* st.session_state.emotion_counts in realtime_emotion, len(session_data)
\* for the emotion_counts display_session_analytics builds in text_emotion.
C13_CountsMatchSamples ==
    /\ session_page = "realtime_emotion"
           => /\ C13_CountsOf(st_emotion_counts, Len(st_emotion_log))
              /\ rt_analysis.status = "shown"
                     => rt_analysis.total_frames = Len(st_emotion_log)
    /\ (session_page = "text_emotion" /\ text_analytics.status = "shown")
           => /\ C13_CountsOf(text_analytics.emotion_counts,
                              Len(st_text_session_data))
              /\ text_analytics.texts_analyzed = Len(st_text_session_data)

\* a realtime session that was restarted, logged samples and was stopped
C13_Witness ==
    /\ session_page = "realtime_emotion"
    /\ handler = "stop"
    /\ rt_analysis.status = "shown"
    /\ Len(st_emotion_log) = MaxLog
    /\ st_emotion_counts["Sad"] >= 1
    /\ st_emotion_counts["Happy"] >= 1

\* a text_emotion session whose counts display_session_analytics shows
C13_WitnessText ==
    /\ session_page = "text_emotion"
    /\ text_analytics.status = "shown"
    /\ Len(st_text_session_data) = MaxTexts
    /\ text_analytics.emotion_counts["sadness"] = MaxTexts

(***************************************************************************)
(* C14                                                                     *)
(***************************************************************************)
\* the number of samples of each label among the samples
C14_Tally(samples, labels) ==
    AsCounts([k \in labels |->
                Cardinality({i \in DOMAIN samples : samples[i] = k})])

\* C14: a reset (Reset Session in text_emotion_page, Start Webcam in
\* realtime_emotion_page) from any session state leaves every emotion count
\* at zero and the sample list empty, and a wellness computation on that
\* empty session returns the midpoint 5.0; no sample recorded before the
\* reset influences a score computed after it: the scores shown are those
\* of the samples recorded since the reset.
C14_ResetClearsSession ==
    /\ (session_page = "text_emotion" /\ handler = "reset")
           => /\ st_text_session_data = << >>
              /\ text_analytics.status = "empty"
              /\ \A k \in DOMAIN text_analytics.emotion_counts :
                     text_analytics.emotion_counts[k] = 0
              /\ text_emotion_calculate_wellness_score(
                     C14_Tally(st_text_session_data, Range(TextLabels)))
                 = FromInt(5)
    /\ (session_page = "realtime_emotion" /\ handler = "start")
           => /\ st_emotion_log = << >>
              /\ \A k \in DOMAIN st_emotion_counts : st_emotion_counts[k] = 0
              /\ realtime_calculate_wellness_score(
                     AsCounts(st_emotion_counts), FromInt(Len(st_emotion_log)))
                 = FromInt(5)
    /\ text_analytics.status = "shown"
           => LET tally == C14_Tally(st_text_session_data, Range(TextLabels))
              IN  /\ text_analytics.wellness_score
                     = text_emotion_calculate_wellness_score(tally)
                  /\ text_analytics.risk_score
                     = text_emotion_calculate_risk_score(tally)
    /\ rt_analysis.status = "shown"
           => LET tally == C14_Tally(st_emotion_log, Range(RealtimeLabels))
                  total_frames == FromInt(Len(st_emotion_log))
              IN  /\ rt_analysis.wellness_score
                     = realtime_calculate_wellness_score(tally, total_frames)
                  /\ rt_analysis.risk_score
                     = realtime_calculate_risk_score(tally, total_frames)

\* Reset Session pressed on a full text_emotion session
C14_Witness ==
    /\ session_page = "text_emotion"
    /\ handler = "reset"
    /\ dropped = MaxTexts

\* Start Webcam pressed on a realtime session that had logged samples
C14_WitnessStart ==
    /\ session_page = "realtime_emotion"
    /\ handler = "start"
    /\ dropped = MaxLog
    /\ rt_view = "live"

(***************************************************************************)
(* C15                                                                     *)
(***************************************************************************)
\* the keys that hold the maximal value of d
C15_MaxSet(d) == {k \in DOMAIN d : \A j \in DOMAIN d : RLe(d[j], d[k])}

C15_Last(s) == s[Len(s)]

\* the labels that tie for the maximum in the classified sample and the
\* label recorded for it (text_emotion: the results of the text analysed
\* last; realtime_emotion: the prediction behind the last log entry)
C15_TextSampleTies == C15_MaxSet(text_results)

C15_RealtimeSampleTies ==
    {RealtimeLabels[i + 1] : i \in C15_MaxSet(logged_prediction)}

\* a sample and a session in which the same two labels tie cannot resolve
\* the tie differently if one enumeration order decides both
C15_OneOrder(sample_ties, sample_pick, session_ties, session_pick) ==
    (sample_pick \in session_ties /\ session_pick \in sample_ties)
        => sample_pick = session_pick

C15_TextDominant ==
    (session_page = "text_emotion" /\ text_results # EmptyMap)
        => /\ C15_Last(st_text_session_data) \in C15_TextSampleTies
           /\ text_analytics.status = "shown"
                  => LET session_ties ==
                             C15_MaxSet(AsCounts(text_analytics.emotion_counts))
                     IN  /\ text_analytics.dominant_overall \in session_ties
                         /\ C15_OneOrder(C15_TextSampleTies,
                                         C15_Last(st_text_session_data),
                                         session_ties,
                                         text_analytics.dominant_overall)

C15_RealtimeDominant ==
    (session_page = "realtime_emotion" /\ st_emotion_log # << >>)
        => /\ C15_Last(st_emotion_log) \in C15_RealtimeSampleTies
           /\ rt_analysis.status = "shown"
                  => LET session_ties == C15_MaxSet(AsCounts(st_emotion_counts))
                     IN  /\ rt_analysis.dominant_emotion \in session_ties
                         /\ C15_OneOrder(C15_RealtimeSampleTies,
                                         C15_Last(st_emotion_log),
                                         session_ties,
                                         rt_analysis.dominant_emotion)

\* C15: the dominant label is always a label of maximum value (maximum
\* probability in a sample, maximum count in a session), and ties are
\* broken by one fixed label enumeration order used both per sample and per
\* session, in text_emotion (sorted(...)[0], max over emotion_counts) and
\* in realtime_emotion (np.argmax, max over emotion_counts).
C15_DominantByOneOrder == C15_TextDominant /\ C15_RealtimeDominant

(***************************************************************************)
(* C16                                                                     *)
(***************************************************************************)
\* the classification of the text failed: analyze_text_emotion returned
\* None, or the label with the top score is none of the seven labels
C16_Failed(results) ==
    \/ results = EmptyMap
    \/ C15_MaxSet(results) \cap Range(TextLabels) = {}

\* one step of the session: a failed text is not added and leaves the
\* recorded samples as they were, and display_session_analytics completes
\* with the counts of the samples of the session
C16_Step ==
    session_page = "text_emotion"
        => /\ (handler' = "analyze" /\ C16_Failed(text_results'))
                  => st_text_session_data' = st_text_session_data
           /\ text_analytics'.status \in {"empty", "shown"}
           /\ text_analytics'.status = "shown"
                  => AsCounts(text_analytics'.emotion_counts)
                     = C14_Tally(st_text_session_data', Range(TextLabels))

\* C16: after any sequence of text analyses in a text_emotion session,
\* including analyses whose classification fails (analyze_text_emotion
\* returns None) or whose dominant label is none of the seven recognized
\* labels, the failed sample is not added to the session, the samples
\* already recorded are unchanged, and every later call of
\* display_session_analytics completes and reports the counts of the
\* successfully counted samples.
C16_FailedSampleNotCounted == [][C16_Step]_vars

\* the part of C16 about analyze_text_emotion returning None
C16_NoneNotCounted ==
    [][(session_page = "text_emotion" /\ handler' = "analyze"
            /\ text_results' = EmptyMap)
        => /\ st_text_session_data' = st_text_session_data
           /\ text_analytics' = display_session_analytics(st_text_session_data)
      ]_vars

(***************************************************************************)
(* C17                                                                     *)
(***************************************************************************)
\* the analysis shown ran without a classifier result: analyze_text after
\* load_emotion_model returned None, analyze_audio after predict_emotion
\* returned ('Unknown', {})
C17_NoClassifierResult ==
    \/ Shown("text_analysis_fallback")
    \/ Shown("voice") /\ vec = EmptyMap

\* C17: when the emotion classifier is unavailable or its invocation fails
\* no wellness score and no risk score is computed for that input; the
\* outcome is indeterminate rather than numeric.
C17_NoScoreWithoutClassifier ==
    C17_NoClassifierResult
        => /\ out_wellness = NoScore
           /\ out_risk = NoScore

(***************************************************************************)
(* C18                                                                     *)
(***************************************************************************)
\* the input holds a key outside the seven labels or a negative value
C18_Invalid(v) ==
    \E k \in DOMAIN v : k \notin Range(TextLabels) \/ v[k].n < 0

\* the input without its keys outside the seven labels
C18_Recognized(v) == [k \in DOMAIN v \cap Range(TextLabels) |-> v[k]]

\* C18: a text_emotion scoring call whose input holds an unrecognized
\* label or a negative value fails with an error and returns no score, and
\* an unrecognized label never changes the score of the recognized labels.
C18_InvalidInputFails ==
    Shown("text_emotion")
        => /\ C18_Invalid(vec)
                  => out_wellness = Raised /\ out_risk = Raised
           /\ NonNegative(vec)
                  => \/ out_risk = Raised
                     \/ out_risk = text_emotion_calculate_risk_score(
                                       C18_Recognized(vec))

\* what the code does keep: an unrecognized label leaves the wellness
\* score of the recognized labels as it is
C18_WellnessIgnoresUnrecognized ==
    Shown("text_emotion")
        => out_wellness
           = text_emotion_calculate_wellness_score(C18_Recognized(vec))

\* no input makes a text_emotion scorer fail
C18_NeverFails ==
    Shown("text_emotion") => out_wellness # Raised /\ out_risk # Raised

(***************************************************************************)
(* C19                                                                     *)
(***************************************************************************)
\* the three insights chosen by the dominant emotion
C19_DominantInsights ==
    {"Positive Emotional State", "Signs of Sadness",
     "Anger or Frustration Detected"}

C19_Emits(title) == \E i \in DOMAIN out_insights : out_insights[i] = title

\* at most one dominant-emotion insight, and none after the first place
C19_AtMostOneAndFirst ==
    Shown("facial")
        => \A i \in DOMAIN out_insights :
               out_insights[i] \in C19_DominantInsights => i = 1

\* Happy, Sad and Angry each get their insight
C19_HappySadAngry ==
    Shown("facial")
        => /\ out_dominant = "Happy" => C19_Emits("Positive Emotional State")
           /\ out_dominant = "Sad" => C19_Emits("Signs of Sadness")
           /\ out_dominant = "Angry"
                  => C19_Emits("Anger or Frustration Detected")

\* C19: generate_facial_insights emits the affirming insight when the
\* dominant emotion is Happy or Surprised, the supportive insight when it is
\* Sad and the stress-management insight when it is Angry; at most one of
\* the three is emitted and it comes before every other insight.
C19_DominantEmotionInsight ==
    /\ C19_HappySadAngry
    /\ C19_AtMostOneAndFirst
    /\ (Shown("facial") /\ out_dominant = "Surprised")
           => C19_Emits("Positive Emotional State")

(***************************************************************************)
(* C20                                                                     *)
(***************************************************************************)
\* a call of an insight generator that returned a list
C20_Generated ==
    /\ Shown("facial") \/ Shown("voice_insights")
    /\ out_insights # NoInsights

C20_Concern(i) == out_insights[i] = "Elevated Concern Level"

\* the insight is emitted exactly when risk_score > 70
C20_ConcernIffAboveSeventy ==
    C20_Generated
        => ((\E i \in DOMAIN out_insights : C20_Concern(i))
               <=> RGt(out_risk, FromInt(70)))

\* in generate_facial_insights the insight, when emitted, is the last one
C20_FacialConcernLast ==
    Shown("facial")
        => \A i \in DOMAIN out_insights :
               C20_Concern(i) => i = Len(out_insights)

\* C20: in generate_facial_insights and in generate_voice_insights, the
\* 'Elevated Concern Level' insight is emitted if and only if
\* risk_score > 70, and when emitted it is the last element of the list.
C20_ElevatedConcernLast ==
    /\ C20_ConcernIffAboveSeventy
    /\ C20_Generated
           => \A i \in DOMAIN out_insights :
                  C20_Concern(i) => i = Len(out_insights)

\* the facial cases the claim is about are reached: a risk score of
\* exactly 70 without the insight, and one above 70 with the insight after
\* another one
C20_FacialAtSeventy ==
    Shown("facial") /\ out_risk = FromInt(70) /\ out_insights # << >>

C20_FacialAboveSeventy ==
    /\ Shown("facial")
    /\ Len(out_insights) >= 2
    /\ C20_Concern(Len(out_insights))

(***************************************************************************)
(* C21                                                                     *)
(***************************************************************************)
\* no execution is inside the recording step
C21_AllFinished == \A e \in Executions : exec_pc[e] = "idle"

\* C21: when two executions for the same session record samples
\* concurrently no update is lost: after both have finished, the counts sum
\* to the length of the log, the number of samples recorded.
C21_NoLostUpdate ==
    C21_AllFinished
        => C13_CountsOf(st_emotion_counts, Len(st_emotion_log))

\* what does hold without a lock: no count ever exceeds the number of log
\* entries with its label
C21_CountsNeverAhead ==
    \A k \in DOMAIN st_emotion_counts :
        st_emotion_counts[k]
            <= Cardinality({i \in DOMAIN st_emotion_log :
                               st_emotion_log[i] = k})

(***************************************************************************)
(* C22                                                                     *)
(***************************************************************************)
\* the step records a sample
C22_Records == Len(st_emotion_log') > Len(st_emotion_log)

\* samples are recorded only inside the webcam loop, on a frame whose
\* index is a multiple of LogEvery, one entry at a time
C22_StrideStep ==
    C22_Records
        => /\ rt_view = "live"
           /\ frame_count % LogEvery = 0
           /\ Len(st_emotion_log') = Len(st_emotion_log) + 1

C22_OnlyOnStride == [][C22_StrideStep]_vars

\* a frame without a face records nothing: the end of a loop iteration
\* leaves the log and the counts alone
C22_FrameStep ==
    (rt_view = "live" /\ frame_count' = frame_count + 1)
        => UNCHANGED <<st_emotion_log, st_emotion_counts>>

C22_NoFaceNoSample == [][C22_FrameStep]_vars

\* a face of the current frame has been processed already
C22_FaceSeen == rt_view = "live" /\ handler = "face"

\* C22: in a realtime session a sample is recorded only for a captured frame
\* whose index frame_count is a multiple of 10, at most one sample is
\* recorded per such frame, and a frame without a face records nothing.
C22_Step ==
    /\ C22_StrideStep
    /\ C22_FrameStep
    /\ C22_Records => ~C22_FaceSeen

C22_OneSamplePerTenthFrame == [][C22_Step]_vars

(***************************************************************************)
(* C23                                                                     *)
(***************************************************************************)
\* the records saved for the session whose results are shown
C23_SavedResults == rt_view = "results" /\ db_saved # << >>

\* C23: every wellness_score written through save_analysis is on the 0-100
\* scale on which dashboard_page averages the stored records; no module
\* stores a 0-10 wellness score.  For realtime_emotion, whose scorer works
\* on 0-10, the stored score is ten times the score of the session.
C23_StoredOnHundredScale ==
    C23_SavedResults
        => \A i \in DOMAIN db_saved :
               db_saved[i].data.wellness_score
               = RMul(FromInt(10), rt_analysis.wellness_score)

\* what realtime_emotion stores: the 0-10 score itself
C23_StoredAsComputed ==
    C23_SavedResults
        => \A i \in DOMAIN db_saved :
               /\ db_saved[i].analysis_type = "realtime_emotion"
               /\ db_saved[i].data.wellness_score = rt_analysis.wellness_score
               /\ RLe(db_saved[i].data.wellness_score, FromInt(10))

(***************************************************************************)
(* C24                                                                     *)
(***************************************************************************)
\* C24: a stopped real-time session is saved exactly once: between
\* 'Stop & Analyze' and the next 'Start Webcam', however often the page is
\* rerun, one save_analysis record of type 'realtime_emotion' is stored.
C24_SavedOnce ==
    (session_page = "realtime_emotion" /\ rt_view = "results")
        => Len(db_saved) <= 1

\* every display of the results calls save_analysis: the records stored
\* while a session is stopped are copies of one another
C24_SavedCopies ==
    (session_page = "realtime_emotion" /\ rt_view = "results")
        => \A i, j \in DOMAIN db_saved : db_saved[i] = db_saved[j]

(***************************************************************************)
(* C25                                                                     *)
(***************************************************************************)
\* counts over the seven labels, at least one text
C25_ValidCounts(v) ==
    /\ NonNegative(v)
    /\ Get(v, "other", FromInt(0)) = FromInt(0)
    /\ Total(v) # FromInt(0)

\* a probability vector: the scores sum to 1
C25_ValidScores(v) == NonNegative(v) /\ Total(v) = FromInt(1)

\* the input is all sadness, the label of the highest weight: the risk
\* score is the mean of the weights of the labels, so no valid input is
\* scored higher
C25_AllSadness(v) ==
    /\ v["sadness"] # FromInt(0)
    /\ \A k \in DOMAIN v \ {"sadness"} : v[k] = FromInt(0)

\* C25: every risk tier is reachable from the continuous text risk
\* scorers: some valid input of text_emotion.calculate_risk_score is in
\* tier High Risk and some in Critical Risk, and some probability vector
\* given to text_analysis.analyze_text is in tier High and some in Critical.
\* The tiers rise with the score, so the valid input of the highest score
\* is then in the Critical tier.
C25_HighTiersReachable ==
    /\ (Shown("text_emotion") /\ C25_ValidCounts(vec) /\ C25_AllSadness(vec))
           => out_risk_level = "Critical Risk"
    /\ (Shown("text_analysis") /\ C25_ValidScores(vec) /\ C25_AllSadness(vec))
           => out_risk_level = "Critical"

\* what the scorers do: no valid input is scored above 4.5 of 10, or 45 of
\* 100, the weight of sadness, so no tier above Moderate is shown
C25_NeverAboveModerate ==
    /\ (Shown("text_emotion") /\ C25_ValidCounts(vec))
           => /\ RLe(out_risk, Rat(45, 10))
              /\ out_risk_level \in {"Minimal Risk", "Low Risk",
                                     "Moderate Risk"}
    /\ (Shown("text_analysis") /\ C25_ValidScores(vec))
           => /\ RLe(out_risk, FromInt(45))
              /\ out_risk_level \in {"Low", "Moderate"}

\* the highest valid input, all of it sadness, is reached
C25_AllSadnessShown ==
    /\ Shown("text_analysis")
    /\ C25_ValidScores(vec)
    /\ vec["sadness"] = FromInt(1)
    /\ out_risk = FromInt(45)


(***************************************************************************)
(* C26: the recommendation of analyze_text against the risk level.         *)
(***************************************************************************)
\* analyze_text has shown its results
C26_Analyzed ==
    pc = "shown" /\ module \in {"text_analysis", "text_analysis_fallback"}

\* C26: the recommendation analyze_text shows never understates the risk
\* level: with a critical keyword it is "Immediate Support Needed", and
\* otherwise with risk level Moderate, High or Critical it is the self-care
\* recommendation for emotional distress
C26_RecommendationCoversRisk ==
    C26_Analyzed =>
        IF in_keywords.critical > 0
        THEN out_recommendation = "Immediate Support Needed"
        ELSE out_risk_level \in {"Moderate", "High", "Critical"} =>
                 out_recommendation = "Self-Care Recommendations"

\* the part of C26 the code keeps: a critical keyword always brings the
\* "Immediate Support Needed" message, and the risk levels Moderate and
\* High never bring one of the two reassuring messages
C26_CriticalKeywordAndModerateHigh ==
    C26_Analyzed =>
        /\ in_keywords.critical > 0 =>
               out_recommendation = "Immediate Support Needed"
        /\ out_risk_level \in {"Moderate", "High"} =>
               out_recommendation \in {"Immediate Support Needed",
                                       "Self-Care Recommendations"}

\* a Critical risk level shown together with a reassuring message
C26_CriticalReassured ==
    /\ C26_Analyzed
    /\ out_risk_level = "Critical"
    /\ out_recommendation \in {"Keep Up the Positive Momentum!",
                               "Maintain Your Mental Wellness"}


(***************************************************************************)
(* C27: the results the analyses store through the database handler.       *)
(***************************************************************************)
\* analyze_audio completed for a signed-in user with a database handler
C27_VoiceCompleted ==
    /\ pc = "shown"
    /\ module = "voice"
    /\ vec # EmptyMap
    /\ CanSave(db_handler, st_user_id)

\* C27: an analysis that completes with a database handler and a user id
\* stores its result: a voice analysis inserts exactly one record of type
\* 'voice' for the user through save_analysis
C27_VoiceResultStored ==
    C27_VoiceCompleted =>
        /\ Len(out_saved) = 1
        /\ out_saved[1].analysis_type = "voice"
        /\ out_saved[1].user_id = st_user_id

\* C27 for the text_emotion page: "Save to Database" on a session that is
\* not empty stores the session document
C27_SessionStored ==
    (session_page = "text_emotion" /\ handler = "save") =>
        \E i \in DOMAIN db_saved :
            /\ db_saved[i].session_type = "text_emotion"
            /\ db_saved[i].total_texts = Len(st_text_session_data)

\* the calls the two modules make are not ones MongoDBHandler accepts: the
\* voice analysis never stores a record, "Save to Database" never stores a
\* session document
C27_VoiceNeverStored == module = "voice" => out_saved = << >>

C27_SessionNeverStored == session_page = "text_emotion" => db_saved = << >>

\* the call analyze_text makes is accepted: a text analysis stores at most
\* one record, of type 'text_analysis' and of the user
C27_TextAnalysisRecord ==
    (pc = "shown" /\ module \in {"text_analysis", "text_analysis_fallback"})
        => /\ Len(out_saved) <= 1
           /\ \A i \in DOMAIN out_saved :
                  /\ out_saved[i].analysis_type = "text_analysis"
                  /\ out_saved[i].user_id = st_user_id
                  /\ out_saved[i].data.risk_level = out_risk_level

\* a text analysis has stored its record
C27_TextAnalysisStored ==
    pc = "shown" /\ module = "text_analysis" /\ Len(out_saved) = 1

\* "Save to Database" ran on a session that is not empty
C27_SaveClicked ==
    /\ session_page = "text_emotion"
    /\ handler = "save"
    /\ Len(st_text_session_data) > 0


(***************************************************************************)
(* C28: realtime session data and the user it belongs to.                  *)
(***************************************************************************)
\* C28: realtime session data never crosses users: the results the realtime
\* page shows, and every record save_analysis has stored for the current
\* emotion_log, belong to the user whose samples the log holds
C28_NoCrossUserData ==
    /\ rt_view = "results" => log_owners \subseteq {st_user_id}
    /\ \A i \in DOMAIN db_saved : log_owners \subseteq {db_saved[i].user_id}

\* while one user stays signed in, the results shown and the records
\* stored are that user's
C28_OwnDataWhileSignedIn ==
    (issued \subseteq {1} /\ revoked = {} /\ st_authenticated) =>
        /\ log_owners \subseteq {st_user_id}
        /\ \A i \in DOMAIN db_saved : db_saved[i].user_id = st_user_id

\* bob sees the results of alice's session and they are stored under bob
C28_CrossedUsers ==
    /\ rt_view = "results"
    /\ st_user_id = "id_bob"
    /\ log_owners = {"id_alice"}
    /\ \E i \in DOMAIN db_saved : db_saved[i].user_id = "id_bob"


(***************************************************************************)
(* C29: what logout leaves behind.                                         *)
(***************************************************************************)
\* the session state as logout leaves it
C29_Cleared ==
    /\ st_authenticated = FALSE
    /\ st_user_id = None
    /\ st_username = None
    /\ st_email = None
    /\ st_session_token = NoToken

\* C29: after a logout with a database handler the session state is
\* cleared, the session document of the token that was active is deleted,
\* and that token never restores an authenticated session
C29_LogoutRevokesToken ==
    /\ handler = "logout" => C29_Cleared
    /\ \A session_token \in revoked :
           /\ \A x \in db_sessions : x.session_token # session_token
           /\ get_session(db_sessions, session_token) = NoUserData
           /\ st_authenticated => st_session_token # session_token

\* the part of C29 the code keeps: logout always clears the five keys and
\* the query parameter, and a token that was active at a logout restores a
\* session only while its document is still in the sessions collection,
\* that is, when delete_session failed
C29_ClearedAndRestoredOnlyIfKept ==
    /\ handler = "logout" => (C29_Cleared /\ query_token = NoToken)
    /\ (st_authenticated /\ st_session_token \in revoked) =>
           \E x \in db_sessions : x.session_token = st_session_token

\* a session restored from the token that was active at a logout
C29_RestoredAfterLogout ==
    /\ handler = "restore"
    /\ st_authenticated
    /\ st_session_token \in revoked

\* a logout with a database handler whose delete_session succeeded
C29_LoggedOut ==
    /\ handler = "logout"
    /\ db_handler = "mongo"
    /\ revoked # {}
    /\ \A x \in db_sessions : x.session_token \notin revoked


(***************************************************************************)
(* C30: the ways st.session_state['authenticated'] becomes True.           *)
(***************************************************************************)
\* a login: the submitted username and password match a stored user and
\* create_session stored a session document under a new token
C30_ByLogin ==
    /\ db_handler # "none"
    /\ \E u \in db_users :
           /\ login_form'.username = u.username
           /\ hash_password(login_form'.password) = u.password
           /\ st_user_id' = u.user_id
    /\ st_session_token' \in issued' \ issued
    /\ \E x \in db_sessions' \ db_sessions :
           /\ x.session_token = st_session_token'
           /\ x.user_id = st_user_id'

\* a restore: the token presented is in the sessions collection, has not
\* expired and belongs to the user who is restored
C30_ByRestore ==
    /\ db_handler # "none"
    /\ st_session_token' = query_token'
    /\ \E x \in db_sessions :
           /\ x.session_token = st_session_token'
           /\ ~x.expired
           /\ x.user_id = st_user_id'

\* demo mode, without a database handler
C30_ByDemo ==
    /\ db_handler = "none"
    /\ st_user_id' = "demo_user"

\* the step leaves the session state of auth.py as it is
C30_Unchanged == st_authenticated /\ UNCHANGED auth_state_vars

C30_Step ==
    st_authenticated' =>
        C30_Unchanged \/ C30_ByLogin \/ C30_ByRestore \/ C30_ByDemo

\* C30: authenticated is True only when a login with matching credentials
\* and a created session, a restore from a stored unexpired token, or demo
\* mode without a database handler has set it; an unknown, deleted or
\* expired token never sets it
C30_AuthenticatedOnlyByLoginRestoreDemo == [][C30_Step]_vars

\* a session restored from a stored token while the collection also holds
\* an expired session
C30_Restored ==
    /\ handler = "restore"
    /\ st_authenticated
    /\ \E x \in db_sessions : x.expired

====
